---- MODULE Spec2Model ----
(***************************************************************************)
(* SaarthiAI: profile validation, profile analysis, blindspot rules,       *)
(* eligibility filter, relevance scoring and top-3 selection, the          *)
(* controller that sequences them for one form submission, and the field   *)
(* normalisation of the web application.                                   *)
(*                                                                         *)
(* Spec: the calls a caller can make on one profile, each call one step.   *)
(* SubmissionSpec: handle_form_submission statement by statement, for the  *)
(* submissions in progress on one controller, with the collaborator a      *)
(* test may have replaced.                                                 *)
(*                                                                         *)
(* Conventions                                                             *)
(*   - Python's Optional[T]: << >> is None, <<v>> is the value v.          *)
(*   - Python str: a TLA+ string; enum members: their .value string.       *)
(*   - Python float: an IEEE-754 binary64, kept as [m, e] with value       *)
(*     m * 2^e, m a 53-bit integer held as base-2^14 limbs (least          *)
(*     significant first); 0.0 is [m |-> << >>, e |-> 0].                  *)
(***************************************************************************)
EXTENDS Integers, Sequences, FiniteSets, TLC

VARIABLES
  knowledge_base,   \* what get_all_opportunities() returns
  student,          \* the StudentProfile handed to the program
  pc,               \* which call has returned
  validation,       \* Optional: the pair returned by StudentProfile.validate
  analysis_out,     \* Optional: the ProfileAnalysis returned by analyze
  probe,            \* Optional: one direct call of a helper, its arguments and what it returned
  blindspots_out,   \* Optional: outcome of identify_blindspots
  matches_out,      \* Optional: the list returned by match_opportunities
  result,           \* Optional: the dict returned by handle_form_submission
  invalid_fields_out, \* Optional: the list returned by _validate_field_values
  patched,          \* the collaborator a test has replaced, and by what
  requests          \* the form submissions in progress on one controller

vars == <<knowledge_base, student, pc, validation, analysis_out, probe,
          blindspots_out, matches_out, result, invalid_fields_out, patched, requests>>

-----------------------------------------------------------------------------
(* Optional values *)

None == << >>
Some(v) == <<v>>
IsNone(o) == Len(o) = 0
Val(o) == o[1]

-----------------------------------------------------------------------------
(* Python float: binary64, round to nearest, ties to even *)

LimbBits == 14
LimbBase == 16384
MantissaBits == 53
Pow2 == [t \in 0..14 |-> 2^t]

Limb(x, i) == IF i >= 1 /\ i <= Len(x) THEN x[i] ELSE 0

RECURSIVE BNorm(_)
BNorm(x) == IF Len(x) > 0 /\ x[Len(x)] = 0 THEN BNorm(SubSeq(x, 1, Len(x) - 1)) ELSE x

RECURSIVE BAddC(_, _, _)
BAddC(x, y, c) ==
  IF Len(x) = 0 /\ Len(y) = 0
  THEN (IF c = 0 THEN << >> ELSE <<c>>)
  ELSE LET s == Limb(x, 1) + Limb(y, 1) + c
       IN <<s % LimbBase>> \o BAddC(SubSeq(x, 2, Len(x)), SubSeq(y, 2, Len(y)), s \div LimbBase)

BAdd(x, y) == BAddC(x, y, 0)

RECURSIVE BMulSmallC(_, _, _)
BMulSmallC(x, d, c) ==
  IF Len(x) = 0
  THEN (IF c = 0 THEN << >> ELSE <<c>>)
  ELSE LET s == x[1] * d + c
       IN <<s % LimbBase>> \o BMulSmallC(Tail(x), d, s \div LimbBase)

BMulSmall(x, d) == BNorm(BMulSmallC(x, d, 0))

RECURSIVE BMul(_, _)
BMul(x, y) ==
  IF Len(y) = 0 THEN << >>
  ELSE BAdd(BMulSmall(x, y[1]), IF Len(x) = 0 THEN << >> ELSE <<0>> \o BMul(x, Tail(y)))

RECURSIVE BitsOf(_)
BitsOf(d) == IF d = 0 THEN 0 ELSE 1 + BitsOf(d \div 2)

BitLen(x) == IF Len(x) = 0 THEN 0 ELSE LimbBits * (Len(x) - 1) + BitsOf(x[Len(x)])

RECURSIVE BShiftLeft(_, _)
BShiftLeft(x, s) ==
  IF Len(x) = 0 THEN << >>
  ELSE IF s >= LimbBits THEN <<0>> \o BShiftLeft(x, s - LimbBits)
  ELSE BMulSmall(x, Pow2[s])

BShiftRight(x, s) ==
  LET k == s \div LimbBits
      t == s % LimbBits
      y == SubSeq(x, k + 1, Len(x))
  IN BNorm([i \in 1..Len(y) |->
              (y[i] \div Pow2[t]) + (Limb(y, i + 1) % Pow2[t]) * Pow2[LimbBits - t]])

AllZero(x) == \A i \in 1..Len(x) : x[i] = 0

\* how the s low bits of x compare with half a unit of the bits kept
Dropped(x, s) ==
  LET k == s \div LimbBits
      t == s % LimbBits
      top == IF t > 0 THEN Limb(x, k + 1) % Pow2[t] ELSE Limb(x, k)
      h == IF t > 0 THEN Pow2[t - 1] ELSE Pow2[LimbBits - 1]
      rest == IF t > 0 THEN SubSeq(x, 1, k) ELSE SubSeq(x, 1, k - 1)
  IN IF top > h THEN "above"
     ELSE IF top < h THEN "below"
     ELSE IF AllZero(rest) THEN "half" ELSE "above"

BLess(x, y) ==
  \/ Len(x) < Len(y)
  \/ /\ Len(x) = Len(y)
     /\ \E i \in 1..Len(x) : x[i] < y[i] /\ \A j \in (i + 1)..Len(x) : x[j] = y[j]

FZero == [m |-> << >>, e |-> 0]

\* q, or q + 1 when the dropped bits d round up: above half, or half with q odd
Nearest(q, d) == IF d = "above" \/ (d = "half" /\ q[1] % 2 = 1) THEN BAdd(q, <<1>>) ELSE q

\* r * 2^e, with r brought back to MantissaBits bits when rounding carried
Renormalised(r, e) ==
  IF BitLen(r) > MantissaBits
  THEN [m |-> BShiftRight(r, 1), e |-> e + 1]
  ELSE [m |-> r, e |-> e]

\* the binary64 nearest to m * 2^e, m having L bits
RoundBits(m, L, e) ==
  IF L = 0 THEN FZero
  ELSE IF L <= MantissaBits
  THEN [m |-> BShiftLeft(m, MantissaBits - L), e |-> e - (MantissaBits - L)]
  ELSE Renormalised(Nearest(BShiftRight(m, L - MantissaBits), Dropped(m, L - MantissaBits)),
                    e + (L - MantissaBits))

RoundNormal(m, e) == RoundBits(m, BitLen(m), e)

\* the binary64 nearest to m0 * 2^e
FRound(m0, e) == RoundNormal(BNorm(m0), e)

FMul(a, b) == FRound(BMul(a.m, b.m), a.e + b.e)

FAdd(a, b) ==
  IF Len(a.m) = 0 THEN b
  ELSE IF Len(b.m) = 0 THEN a
  ELSE LET e == IF a.e < b.e THEN a.e ELSE b.e
       IN FRound(BAdd(BShiftLeft(a.m, a.e - e), BShiftLeft(b.m, b.e - e)), e)

FLess(a, b) ==
  IF Len(b.m) = 0 THEN FALSE
  ELSE IF Len(a.m) = 0 THEN TRUE
  ELSE a.e < b.e \/ (a.e = b.e /\ BLess(a.m, b.m))

FLeq(a, b) == ~FLess(b, a)

\* Python's max(a, b) and min(a, b): the first argument wins a tie
FMax(a, b) == IF FLess(a, b) THEN b ELSE a
FMin(a, b) == IF FLess(b, a) THEN b ELSE a

\* the float literals of the source text: the binary64 nearest to each decimal
F_0_0 == FZero
F_0_1 == [m |-> <<6554, 9830, 6553, 1638>>, e |-> -56]
F_0_15 == [m |-> <<13107, 3276, 13107, 1228>>, e |-> -55]
F_0_2 == [m |-> <<6554, 9830, 6553, 1638>>, e |-> -55]
F_0_3 == [m |-> <<13107, 3276, 13107, 1228>>, e |-> -54]
F_0_35 == [m |-> <<9830, 6553, 9830, 1433>>, e |-> -54]
F_0_4 == [m |-> <<6554, 9830, 6553, 1638>>, e |-> -54]
F_0_45 == [m |-> <<3277, 13107, 3276, 1843>>, e |-> -54]
F_0_5 == [m |-> <<0, 0, 0, 1024>>, e |-> -53]
F_0_55 == [m |-> <<6554, 9830, 6553, 1126>>, e |-> -53]
F_0_58 == [m |-> <<655, 9175, 13762, 1187>>, e |-> -53]
F_0_6 == [m |-> <<13107, 3276, 13107, 1228>>, e |-> -53]
F_0_65 == [m |-> <<3277, 13107, 3276, 1331>>, e |-> -53]
F_0_7 == [m |-> <<9830, 6553, 9830, 1433>>, e |-> -53]
F_0_8 == [m |-> <<6554, 9830, 6553, 1638>>, e |-> -53]
F_0_85 == [m |-> <<13107, 3276, 13107, 1740>>, e |-> -53]
F_0_9 == [m |-> <<3277, 13107, 3276, 1843>>, e |-> -53]
F_1_0 == [m |-> <<0, 0, 0, 1024>>, e |-> -52]

-----------------------------------------------------------------------------
(* Python str *)

UpperCase == <<"A","B","C","D","E","F","G","H","I","J","K","L","M",
               "N","O","P","Q","R","S","T","U","V","W","X","Y","Z">>
LowerCase == <<"a","b","c","d","e","f","g","h","i","j","k","l","m",
               "n","o","p","q","r","s","t","u","v","w","x","y","z">>
Whitespace == {" ", "\t", "\n", "\r"}

\* the lower-case letter of each upper-case letter
LowerOfUpper ==
  [c \in {UpperCase[i] : i \in 1..Len(UpperCase)} |->
     LowerCase[CHOOSE i \in 1..Len(UpperCase) : UpperCase[i] = c]]

LowerChar(c) == IF c \in DOMAIN LowerOfUpper THEN LowerOfUpper[c] ELSE c

\* str.lower(), character by character (the string is halved to keep the
\* evaluation shallow)
RECURSIVE Lower(_)
Lower(s) ==
  IF Len(s) = 0 THEN ""
  ELSE IF Len(s) = 1 THEN LowerChar(s)
  ELSE Lower(SubSeq(s, 1, Len(s) \div 2)) \o Lower(SubSeq(s, Len(s) \div 2 + 1, Len(s)))

\* needle in hay
Contains(hay, needle) ==
  \E i \in 1..(Len(hay) - Len(needle) + 1) : SubSeq(hay, i, i + Len(needle) - 1) = needle

\* not s.strip(): s is empty or whitespace only
IsBlank(s) == \A i \in 1..Len(s) : SubSeq(s, i, i) \in Whitespace

\* s.strip(): s without its leading and trailing whitespace
RECURSIVE Strip(_)
Strip(s) ==
  IF Len(s) = 0 THEN s
  ELSE IF SubSeq(s, 1, 1) \in Whitespace THEN Strip(SubSeq(s, 2, Len(s)))
  ELSE IF SubSeq(s, Len(s), Len(s)) \in Whitespace THEN Strip(SubSeq(s, 1, Len(s) - 1))
  ELSE s

\* x in xs, for a list xs
In(x, xs) == \E i \in 1..Len(xs) : xs[i] = x

\* ', '.join(xs)
RECURSIVE JoinWith(_, _)
JoinWith(xs, sep) ==
  IF Len(xs) = 0 THEN ""
  ELSE IF Len(xs) = 1 THEN xs[1]
  ELSE xs[1] \o sep \o JoinWith(Tail(xs), sep)

-----------------------------------------------------------------------------
(* models.py: the enumerations, by their values *)

EducationLevel == {"Diploma", "UG", "PG", "PhD"}
InstitutionType == {"Government", "Private", "Autonomous", "Open"}
BackgroundIndicator == <<"Rural", "First-generation", "Financial support", "Disabled", "Minority">>
OpportunityGoal == <<"Scholarships", "Internships", "Research", "Skills", "Govt Exams">>
MissedOpportunityFrequency == {"Yes many times", "Once or twice", "No"}
Levels == {"High", "Medium", "Low"}

-----------------------------------------------------------------------------
(* knowledge_base.py *)

AllEducationLevels == <<"Diploma", "UG", "PG", "PhD">>

OPPORTUNITIES ==
  << [id |-> "central-sector-scholarship",
      name |-> "Central Sector Scholarship",
      description |-> "Central government scholarship for undergraduate students from families with income below threshold",
      eligibility_criteria |->
        [education_levels |-> <<"UG">>, fields_of_study |-> None, institution_types |-> None,
         background_requirements |-> None, income_based |-> TRUE, merit_based |-> FALSE],
      visibility_level |-> "Medium", impact_level |-> "High", category |-> "Scholarship"],
     [id |-> "aicte-pragati",
      name |-> "AICTE Pragati",
      description |-> "AICTE scholarship for female engineering students",
      eligibility_criteria |->
        [education_levels |-> <<"UG">>, fields_of_study |-> Some(<<"Engineering">>),
         institution_types |-> None, background_requirements |-> None,
         income_based |-> FALSE, merit_based |-> FALSE],
      visibility_level |-> "Low", impact_level |-> "High", category |-> "Scholarship"],
     [id |-> "aicte-saksham",
      name |-> "AICTE Saksham",
      description |-> "AICTE scholarship for disabled engineering students",
      eligibility_criteria |->
        [education_levels |-> <<"UG">>, fields_of_study |-> Some(<<"Engineering">>),
         institution_types |-> None, background_requirements |-> Some(<<"Disabled">>),
         income_based |-> FALSE, merit_based |-> FALSE],
      visibility_level |-> "Low", impact_level |-> "High", category |-> "Scholarship"],
     [id |-> "nptel-research-internship",
      name |-> "NPTEL Research Internship",
      description |-> "Research internship program for STEM students",
      eligibility_criteria |->
        [education_levels |-> <<"UG", "PG">>,
         fields_of_study |-> Some(<<"Engineering", "Science", "Mathematics", "Computer Science">>),
         institution_types |-> None, background_requirements |-> None,
         income_based |-> FALSE, merit_based |-> FALSE],
      visibility_level |-> "Medium", impact_level |-> "Medium", category |-> "Internship"],
     [id |-> "state-govt-merit-scholarship",
      name |-> "State Government Merit Scholarships",
      description |-> "Merit-based scholarships offered by state governments",
      eligibility_criteria |->
        [education_levels |-> AllEducationLevels, fields_of_study |-> None,
         institution_types |-> None, background_requirements |-> None,
         income_based |-> FALSE, merit_based |-> TRUE],
      visibility_level |-> "Low", impact_level |-> "Medium", category |-> "Scholarship"],
     [id |-> "moe-innovation-programs",
      name |-> "Ministry of Education Innovation Programs",
      description |-> "Innovation and skill development programs by Ministry of Education",
      eligibility_criteria |->
        [education_levels |-> AllEducationLevels, fields_of_study |-> None,
         institution_types |-> None, background_requirements |-> None,
         income_based |-> FALSE, merit_based |-> FALSE],
      visibility_level |-> "Low", impact_level |-> "Medium", category |-> "Program"] >>

\* get_all_opportunities() answering with the shipped list whatever the
\* knowledge base holds
get_all_opportunities_shipped(kb) == OPPORTUNITIES

\* get_all_opportunities(): a copy of the list the knowledge base holds
get_all_opportunities(kb) == kb

-----------------------------------------------------------------------------
(* models.py: StudentProfile.validate *)

When(cond, x) == IF cond THEN <<x>> ELSE << >>

\* not s or not s.strip(), for an Optional str
MissingText(o) == IsNone(o) \/ Val(o) = "" \/ IsBlank(Val(o))

\* MissingNumber with the `<= 0` test left out
MissingNumberNoneOnly(o) == IsNone(o)

\* n is None or n <= 0, for an Optional int
MissingNumber(o) == IsNone(o) \/ Val(o) <= 0

\* validate() with an empty background_indicators list reported as missing
validate_requiring_background(profile) ==
  LET missing_fields ==
           When(MissingText(profile.name), "name")
        \o When(MissingNumber(profile.age), "age")
        \o When(IsNone(profile.education_level), "education_level")
        \o When(MissingText(profile.degree), "degree")
        \o When(MissingText(profile.field_of_study), "field_of_study")
        \o When(MissingNumber(profile.year_of_study), "year_of_study")
        \o When(IsNone(profile.institution_type), "institution_type")
        \o When(Len(profile.background_indicators) = 0, "background_indicators")
        \o When(Len(profile.opportunity_goals) = 0, "opportunity_goals")
        \o When(IsNone(profile.missed_opportunities_before), "missed_opportunities_before")
  IN [is_valid |-> Len(missing_fields) = 0, missing_fields |-> missing_fields]

validate(profile) ==
  LET missing_fields ==
           When(MissingText(profile.name), "name")
        \o When(MissingNumber(profile.age), "age")
        \o When(IsNone(profile.education_level), "education_level")
        \o When(MissingText(profile.degree), "degree")
        \o When(MissingText(profile.field_of_study), "field_of_study")
        \o When(MissingNumber(profile.year_of_study), "year_of_study")
        \o When(IsNone(profile.institution_type), "institution_type")
        \o When(Len(profile.opportunity_goals) = 0, "opportunity_goals")
        \o When(IsNone(profile.missed_opportunities_before), "missed_opportunities_before")
  IN [is_valid |-> Len(missing_fields) = 0, missing_fields |-> missing_fields]

-----------------------------------------------------------------------------
(* profile_analyzer.py *)

_extract_characteristics(profile) ==
  <<Val(profile.education_level), Val(profile.field_of_study), Val(profile.institution_type)>>
    \o profile.background_indicators

_extract_eligibility_tags(profile) == profile.background_indicators

_map_awareness_level(missed_opportunities) ==
  IF missed_opportunities = "Yes many times" THEN "Low"
  ELSE IF missed_opportunities = "Once or twice" THEN "Medium"
  ELSE "High"

analyze(profile) ==
  [key_characteristics |-> _extract_characteristics(profile),
   eligibility_tags |-> _extract_eligibility_tags(profile),
   awareness_level |-> _map_awareness_level(Val(profile.missed_opportunities_before)),
   priority_goals |-> profile.opportunity_goals]

-----------------------------------------------------------------------------
(* list.sort(key=lambda x: x.relevance_score, reverse=True): stable *)

\* the list of the values of f on 1..n, each computed once
ListOf(f) == f \o << >>

\* a descending sort that is not stable: the later index first among equal scores
SortedIndicesUnstable(xs) ==
  SortSeq(ListOf([i \in DOMAIN xs |-> i]),
          LAMBDA i, j : \/ FLess(xs[j].relevance_score, xs[i].relevance_score)
                        \/ xs[i].relevance_score = xs[j].relevance_score /\ i > j)

\* list.sort(key=lambda x: x.relevance_score, reverse=True), as the order it
\* puts the indices of xs in: the greater score first and, the sort being
\* stable, the earlier index first among equal scores
SortedIndices(xs) ==
  SortSeq(ListOf([i \in DOMAIN xs |-> i]),
          LAMBDA i, j : \/ FLess(xs[j].relevance_score, xs[i].relevance_score)
                        \/ xs[i].relevance_score = xs[j].relevance_score /\ i < j)

\* the sort without reverse=True
sort_ascending(xs) ==
  LET order == SortSeq(ListOf([i \in DOMAIN xs |-> i]),
                       LAMBDA i, j : \/ FLess(xs[i].relevance_score, xs[j].relevance_score)
                                     \/ xs[i].relevance_score = xs[j].relevance_score /\ i < j)
  IN ListOf([k \in DOMAIN xs |-> xs[order[k]]])

sort_by_relevance_score(xs) ==
  LET order == SortedIndices(xs)
  IN ListOf([k \in DOMAIN xs |-> xs[order[k]]])

\* xs[:n]
Take(xs, n) == SubSeq(xs, 1, IF Len(xs) < n THEN Len(xs) ELSE n)

-----------------------------------------------------------------------------
(* blindspot_identifier.py *)

STEM_FIELDS ==
  <<"Computer Science", "Engineering", "Mathematics", "Physics",
    "Chemistry", "Biology", "Statistics", "Data Science",
    "Information Technology", "Electronics", "Mechanical",
    "Civil", "Chemical", "Biotechnology">>

MinBlindspots == 3
MaxBlindspots == 5

Blindspot(category, reason, relevance_score) ==
  [category |-> category, reason |-> reason, relevance_score |-> relevance_score]

\* _has_financial_background looking for the wrong indicator
_has_rural_background(eligibility_tags) == In("Rural", eligibility_tags)

_has_financial_background(eligibility_tags) == In("Financial support", eligibility_tags)

\* stem.lower() for stem in STEM_FIELDS
STEM_FIELDS_lower == [i \in DOMAIN STEM_FIELDS |-> Lower(STEM_FIELDS[i])]

_is_stem_field(field_of_study) ==
  LET field_lower == Lower(field_of_study)
  IN \E i \in DOMAIN STEM_FIELDS_lower : Contains(field_lower, STEM_FIELDS_lower[i])

_has_special_category(gender, eligibility_tags) ==
  IF ~IsNone(gender) /\ Val(gender) # "" /\ Lower(Val(gender)) \in {"female", "woman", "f"}
  THEN TRUE
  ELSE IF In("Disabled", eligibility_tags) THEN TRUE
  ELSE FALSE

_mentions_innovation(additional_context) ==
  IF IsNone(additional_context) \/ Val(additional_context) = "" THEN FALSE
  ELSE LET context_lower == Lower(Val(additional_context))
       IN \E keyword \in {"innovation", "innovate", "innovative", "startup", "entrepreneur"} :
            Contains(context_lower, keyword)

\* the blindspot each rule appends, rules 1 to 12 in the order they are evaluated
BlindspotOfRule ==
  << Blindspot("Income-based Central Government Scholarships",
               "Many students don't know about central government scholarships that don't require high merit",
               F_0_9),
     Blindspot("Research Internships and Programs",
               "STEM students often focus on placements and miss research opportunities from national platforms",
               F_0_8),
     Blindspot("State-level Merit Scholarships",
               "State scholarships have poor visibility compared to national programs",
               F_0_7),
     Blindspot("Category-specific Technical Scholarships",
               "Technical scholarships for specific categories are often under-promoted in colleges",
               F_0_85),
     Blindspot("Government Innovation and Skill Programs",
               "Innovation programs are often buried in government websites with poor outreach",
               F_0_6),
     Blindspot("Industry and Government Internships",
               "Many internship programs beyond campus placements remain unknown to students",
               F_0_65),
     Blindspot("Government Exam Preparation Resources",
               "Free government resources for exam preparation are often overlooked",
               F_0_55),
     Blindspot("Interdisciplinary Research Programs",
               "Research opportunities exist beyond traditional STEM fields but are rarely promoted",
               F_0_58),
     Blindspot("Merit and Need-based Scholarships",
               "Many scholarship programs exist beyond the well-known ones, but lack awareness",
               F_0_5),
     Blindspot("Skill Development and Certification Programs",
               "Free skill development programs from government and institutions often go unnoticed",
               F_0_45),
     Blindspot("Academic Enhancement Programs",
               "Programs for academic growth beyond regular curriculum are rarely promoted",
               F_0_4),
     Blindspot("Career Guidance and Mentorship Programs",
               "Structured career guidance programs from institutions and government are underutilized",
               F_0_35) >>

\* the conditions of the rules with rule 9 not looking at the list
RuleFiresScholarshipAlways(n, profile, analysis, blindspots) ==
  CASE n = 1 -> /\ _has_financial_background(analysis.eligibility_tags)
                /\ In("Scholarships", analysis.priority_goals)
    [] n = 2 -> /\ _is_stem_field(Val(profile.field_of_study))
                /\ Val(profile.education_level) \in {"UG", "PG"}
    [] n = 3 -> /\ Val(profile.institution_type) \in {"Government", "Autonomous"}
                /\ In("Scholarships", analysis.priority_goals)
    [] n = 4 -> _has_special_category(profile.gender, analysis.eligibility_tags)
    [] n = 5 -> \/ In("Skills", analysis.priority_goals)
                \/ _mentions_innovation(profile.additional_context)
    [] n = 6 -> In("Internships", analysis.priority_goals)
    [] n = 7 -> In("Govt Exams", analysis.priority_goals)
    [] n = 8 -> /\ In("Research", analysis.priority_goals)
                /\ ~_is_stem_field(Val(profile.field_of_study))
    [] n = 9 -> In("Scholarships", analysis.priority_goals)
    [] n = 10 -> Len(blindspots) < MinBlindspots
    [] n = 11 -> Len(blindspots) < MinBlindspots
    [] n = 12 -> Len(blindspots) < MinBlindspots

\* the condition of rule n, given the blindspots appended so far
RuleFires(n, profile, analysis, blindspots) ==
  CASE n = 1 -> /\ _has_financial_background(analysis.eligibility_tags)
                /\ In("Scholarships", analysis.priority_goals)
    [] n = 2 -> /\ _is_stem_field(Val(profile.field_of_study))
                /\ Val(profile.education_level) \in {"UG", "PG"}
    [] n = 3 -> /\ Val(profile.institution_type) \in {"Government", "Autonomous"}
                /\ In("Scholarships", analysis.priority_goals)
    [] n = 4 -> _has_special_category(profile.gender, analysis.eligibility_tags)
    [] n = 5 -> \/ In("Skills", analysis.priority_goals)
                \/ _mentions_innovation(profile.additional_context)
    [] n = 6 -> In("Internships", analysis.priority_goals)
    [] n = 7 -> In("Govt Exams", analysis.priority_goals)
    [] n = 8 -> /\ In("Research", analysis.priority_goals)
                /\ ~_is_stem_field(Val(profile.field_of_study))
    [] n = 9 -> Len(blindspots) < MinBlindspots /\ In("Scholarships", analysis.priority_goals)
    [] n = 10 -> Len(blindspots) < MinBlindspots
    [] n = 11 -> Len(blindspots) < MinBlindspots
    [] n = 12 -> Len(blindspots) < MinBlindspots

\* rules 1 to 8 do not look at the list: the blindspots they append, in order
LastPrimaryRule == 8

PrimaryBlindspots(profile, analysis) ==
  LET fired == SelectSeq(ListOf([n \in 1..LastPrimaryRule |-> n]),
                         LAMBDA n : RuleFires(n, profile, analysis, << >>))
  IN ListOf([k \in DOMAIN fired |-> BlindspotOfRule[fired[k]]])

\* a fallback rule that never appends
AfterRuleWithoutFallback(n, profile, analysis, blindspots) == blindspots

\* the list after rule n, a fallback rule, has been evaluated on `blindspots`
AfterRule(n, profile, analysis, blindspots) ==
  IF RuleFires(n, profile, analysis, blindspots)
  THEN Append(blindspots, BlindspotOfRule[n])
  ELSE blindspots

\* the list before it is sorted, had the final fallback rule been left out
accumulated_blindspots_to_rule_11(profile, analysis) ==
  LET b8 == PrimaryBlindspots(profile, analysis)
      b9 == AfterRule(9, profile, analysis, b8)
      b10 == AfterRule(10, profile, analysis, b9)
  IN AfterRule(11, profile, analysis, b10)

\* the list before it is sorted
accumulated_blindspots(profile, analysis) ==
  LET b8 == PrimaryBlindspots(profile, analysis)
      b9 == AfterRule(9, profile, analysis, b8)
      b10 == AfterRule(10, profile, analysis, b9)
      b11 == AfterRule(11, profile, analysis, b10)
  IN AfterRule(12, profile, analysis, b11)

\* [raised |-> TRUE] stands for the ValueError("Implementation error: ...")
top_blindspots(blindspots) ==
  IF Len(blindspots) < MinBlindspots
  THEN [raised |-> TRUE, value |-> << >>]
  ELSE [raised |-> FALSE, value |-> Take(blindspots, MaxBlindspots)]

\* identify_blindspots with its list kept on the identifier between calls:
\* the blindspots an earlier call returned are still in it
identify_blindspots_accumulating(profile, analysis) ==
  LET held == {q \in DOMAIN requests : ~IsNone(requests[q].blindspots)}
      carried == IF held = {} THEN << >> ELSE Val(requests[CHOOSE q \in held : TRUE].blindspots)
  IN top_blindspots(sort_by_relevance_score(carried \o accumulated_blindspots(profile, analysis)))

identify_blindspots(profile, analysis) ==
  top_blindspots(sort_by_relevance_score(accumulated_blindspots(profile, analysis)))

-----------------------------------------------------------------------------
(* opportunity_matcher.py *)

MinMatches == 2
MaxMatches == 3

\* is_eligible with an unspecified field list read as "no field qualifies"
is_eligible_fields_required(profile, criteria) ==
  IF ~In(Val(profile.education_level), criteria.education_levels) THEN FALSE
  ELSE IF \/ IsNone(criteria.fields_of_study)
          \/ ~In(Val(profile.field_of_study), Val(criteria.fields_of_study)) THEN FALSE
  ELSE IF /\ ~IsNone(criteria.institution_types)
          /\ ~In(Val(profile.institution_type), Val(criteria.institution_types)) THEN FALSE
  ELSE IF /\ ~IsNone(criteria.background_requirements)
          /\ ~\E i \in 1..Len(Val(criteria.background_requirements)) :
                In(Val(criteria.background_requirements)[i], profile.background_indicators)
       THEN FALSE
  ELSE TRUE

\* is_eligible refusing, for criteria that name fields of study, a student who
\* is not stated to be female
is_eligible_female_only(profile, criteria) ==
  IF ~In(Val(profile.education_level), criteria.education_levels) THEN FALSE
  ELSE IF /\ ~IsNone(criteria.fields_of_study)
          /\ \/ ~In(Val(profile.field_of_study), Val(criteria.fields_of_study))
             \/ profile.gender # Some("Female") THEN FALSE
  ELSE IF /\ ~IsNone(criteria.institution_types)
          /\ ~In(Val(profile.institution_type), Val(criteria.institution_types)) THEN FALSE
  ELSE IF /\ ~IsNone(criteria.background_requirements)
          /\ ~\E i \in 1..Len(Val(criteria.background_requirements)) :
                In(Val(criteria.background_requirements)[i], profile.background_indicators)
       THEN FALSE
  ELSE TRUE

\* is_eligible asking for every listed background instead of any one of them
is_eligible_all_of(profile, criteria) ==
  IF ~In(Val(profile.education_level), criteria.education_levels) THEN FALSE
  ELSE IF /\ ~IsNone(criteria.fields_of_study)
          /\ ~In(Val(profile.field_of_study), Val(criteria.fields_of_study)) THEN FALSE
  ELSE IF /\ ~IsNone(criteria.institution_types)
          /\ ~In(Val(profile.institution_type), Val(criteria.institution_types)) THEN FALSE
  ELSE IF /\ ~IsNone(criteria.background_requirements)
          /\ ~\A i \in 1..Len(Val(criteria.background_requirements)) :
                In(Val(criteria.background_requirements)[i], profile.background_indicators)
       THEN FALSE
  ELSE TRUE

is_eligible(profile, criteria) ==
  IF ~In(Val(profile.education_level), criteria.education_levels) THEN FALSE
  ELSE IF /\ ~IsNone(criteria.fields_of_study)
          /\ ~In(Val(profile.field_of_study), Val(criteria.fields_of_study)) THEN FALSE
  ELSE IF /\ ~IsNone(criteria.institution_types)
          /\ ~In(Val(profile.institution_type), Val(criteria.institution_types)) THEN FALSE
  ELSE IF /\ ~IsNone(criteria.background_requirements)
          /\ ~\E i \in 1..Len(Val(criteria.background_requirements)) :
                In(Val(criteria.background_requirements)[i], profile.background_indicators)
       THEN FALSE
  ELSE TRUE

\* a miss probability that looks at the visibility only
miss_probability_by_visibility(visibility_level, awareness_level) ==
  IF visibility_level = "Low" THEN "High"
  ELSE IF visibility_level = "Medium" THEN "Medium"
  ELSE "Low"

calculate_miss_probability(visibility_level, awareness_level) ==
  IF visibility_level = "Low" THEN "High"
  ELSE IF visibility_level = "Medium"
  THEN (IF awareness_level = "Low" THEN "High"
        ELSE IF awareness_level = "Medium" THEN "Medium"
        ELSE "Low")
  ELSE IF awareness_level = "Low" THEN "Medium"
  ELSE "Low"

\* The texts the alignment loop lower-cases and searches: the categories of the
\* blindspot rules, the categories and names of the catalog, the keywords of
\* the heuristics.  Their lower-case forms and the substring tests among them
\* are computed once; any other text is lower-cased and searched directly.
AlignmentTexts ==
  {BlindspotOfRule[n].category : n \in DOMAIN BlindspotOfRule}
    \cup {OPPORTUNITIES[i].category : i \in DOMAIN OPPORTUNITIES}
    \cup {OPPORTUNITIES[i].name : i \in DOMAIN OPPORTUNITIES}

AlignmentKeywords ==
  {"scholarship", "research", "innovation", "internship", "program", "aicte",
   "category-specific", "central", "income-based", "state", "nptel", "ministry",
   "skill", "merit"}

\* table[x] where the table has it, and otherwise `direct`
Cached(table, x, direct) == IF x \in DOMAIN table THEN table[x] ELSE direct

\* table[x][y] where the table has it, and otherwise `direct`
Cached2(table, x, y, direct) ==
  IF x \in DOMAIN table /\ y \in DOMAIN table[x] THEN table[x][y] ELSE direct

LowerOfText == [s \in AlignmentTexts |-> Lower(s)]

lower(s) == Cached(LowerOfText, s, Lower(s))

LoweredTexts == {LowerOfText[s] : s \in DOMAIN LowerOfText}

ContainsOfText ==
  [hay \in LoweredTexts |->
     [needle \in AlignmentKeywords \cup LoweredTexts |-> Contains(hay, needle)]]

contains(hay, needle) == Cached2(ContainsOfText, hay, needle, Contains(hay, needle))

\* the greatest of a non-empty set of floats
Greatest(scores) == CHOOSE x \in scores : \A y \in scores : FLeq(y, x)

\* The products and sums the scoring works through, computed once: the scores
\* of the blindspot rules and of the fallback blindspots, their multiples by
\* the factors of the heuristics, the weighted alignments and the partial sums
\* of _calculate_relevance.  Any other operands are multiplied and added
\* directly.
RuleScores ==
  {BlindspotOfRule[n].relevance_score : n \in DOMAIN BlindspotOfRule} \cup {F_0_8, F_0_7, F_0_6}

AlignmentFactors == {F_0_9, F_0_7, F_0_8}

Alignments ==
  RuleScores \cup {FMul(score, factor) : score \in RuleScores, factor \in AlignmentFactors}
             \cup {F_0_3}

ProductTable ==
  [a \in Alignments |-> [b \in AlignmentFactors \cup {F_0_4} |-> FMul(a, b)]]

Times(a, b) == Cached2(ProductTable, a, b, FMul(a, b))

PartialSums ==
  LET weighted == {ProductTable[a][F_0_4] : a \in Alignments}
      with_impact == {FAdd(x, w) : x \in weighted, w \in {F_0_3, F_0_2, F_0_1}}
      with_visibility == {FAdd(x, w) : x \in with_impact, w \in {F_0_2, F_0_15, F_0_1}}
  IN weighted \cup with_impact \cup with_visibility

SumTable ==
  [a \in PartialSums |-> [b \in {F_0_1, F_0_15, F_0_2, F_0_3} |-> FAdd(a, b)]]

Plus(a, b) == Cached2(SumTable, a, b, FAdd(a, b))

\* The thirteen `if` statements of the loop body over `blindspot`, in order:
\* whether the condition holds, and the score its max() is offered.  In each
\* `and` the equality or the flag is tested before the substring search
\* (neither has an effect, so the conjunction is the same).
AlignmentHeuristics(category_lower, opp_category_lower, opp_name_lower, merit_based, score) ==
     << [holds |-> contains(category_lower, opp_category_lower), score |-> score],
        [holds |-> opp_category_lower = "scholarship" /\ contains(category_lower, "scholarship"),
         score |-> score],
        [holds |-> opp_category_lower = "internship" /\ contains(category_lower, "research"),
         score |-> Times(score, F_0_9)],
        [holds |-> opp_category_lower = "program" /\ contains(category_lower, "innovation"),
         score |-> Times(score, F_0_9)],
        [holds |-> opp_category_lower = "internship" /\ contains(category_lower, "internship"),
         score |-> score],
        [holds |-> opp_category_lower = "program" /\ contains(category_lower, "program"),
         score |-> score],
        [holds |-> contains(opp_name_lower, "aicte") /\ contains(category_lower, "category-specific"),
         score |-> score],
        [holds |-> contains(opp_name_lower, "central") /\ contains(category_lower, "income-based"),
         score |-> score],
        [holds |-> contains(opp_name_lower, "state") /\ contains(category_lower, "state"),
         score |-> score],
        [holds |-> contains(opp_name_lower, "nptel") /\ contains(category_lower, "research"),
         score |-> score],
        [holds |-> contains(opp_name_lower, "ministry") /\ contains(category_lower, "innovation"),
         score |-> score],
        [holds |-> opp_category_lower = "program" /\ contains(category_lower, "skill"),
         score |-> Times(score, F_0_7)],
        [holds |-> merit_based /\ contains(category_lower, "merit"),
         score |-> Times(score, F_0_8)] >>

\* the scores of the statements whose condition holds
Offered(heuristics) ==
  {heuristics[i].score : i \in {j \in DOMAIN heuristics : heuristics[j].holds}}

\* the scores one pass of the loop body offers to max()
OfferedScores(opportunity, blindspot) ==
  Offered(AlignmentHeuristics(lower(blindspot.category), lower(opportunity.category),
                              lower(opportunity.name),
                              opportunity.eligibility_criteria.merit_based,
                              blindspot.relevance_score))

\* _calculate_blindspot_alignment returning max_alignment as the loop left it
_calculate_blindspot_alignment_unfloored(opportunity, blindspots) ==
  Greatest({F_0_0} \cup UNION {OfferedScores(opportunity, blindspots[i]) : i \in DOMAIN blindspots})

\* max_alignment starts at 0.0 and every statement that holds does
\* max_alignment = max(max_alignment, score): after the loop it is the greatest
\* of 0.0 and the scores offered in any pass
_calculate_blindspot_alignment(opportunity, blindspots) ==
  LET max_alignment ==
        Greatest({F_0_0} \cup UNION {OfferedScores(opportunity, blindspots[i]) : i \in DOMAIN blindspots})
  IN FMax(max_alignment, F_0_3)

opportunity_category_to_goal ==
  [c \in {"Scholarship", "Internship", "Program"} |->
     CASE c = "Scholarship" -> "Scholarships"
       [] c = "Internship" -> "Internships"
       [] c = "Program" -> "Skills"]

\* score += term, for each term in turn
RECURSIVE Accumulate(_, _)
Accumulate(score, terms) ==
  IF Len(terms) = 0 THEN score
  ELSE Accumulate(Plus(score, Head(terms)), Tail(terms))

\* _calculate_relevance without the goal alignment term
_calculate_relevance_goal_blind(profile, analysis, opportunity, blindspot_alignment) ==
  FMin(Accumulate(F_0_0,
         << Times(blindspot_alignment, F_0_4),
            IF opportunity.impact_level = "High" THEN F_0_3
            ELSE IF opportunity.impact_level = "Medium" THEN F_0_2
            ELSE F_0_1,
            IF opportunity.visibility_level = "Low" THEN F_0_2
            ELSE IF opportunity.visibility_level = "Medium" THEN F_0_15
            ELSE F_0_1 >>),
       F_1_0)

_calculate_relevance(profile, analysis, opportunity, blindspot_alignment) ==
  FMin(Accumulate(F_0_0,
         << Times(blindspot_alignment, F_0_4),
            IF opportunity.impact_level = "High" THEN F_0_3
            ELSE IF opportunity.impact_level = "Medium" THEN F_0_2
            ELSE F_0_1,
            IF opportunity.visibility_level = "Low" THEN F_0_2
            ELSE IF opportunity.visibility_level = "Medium" THEN F_0_15
            ELSE F_0_1 >>
         \o When(/\ opportunity.category \in DOMAIN opportunity_category_to_goal
                 /\ In(opportunity_category_to_goal[opportunity.category], analysis.priority_goals),
                 F_0_1)),
       F_1_0)

\* explanations[0] + ", and " + ..., by the number of clauses
JoinClauses(explanations) ==
  IF Len(explanations) = 1 THEN explanations[1] \o "."
  ELSE IF Len(explanations) = 2 THEN explanations[1] \o ", and " \o explanations[2] \o "."
  ELSE JoinWith(SubSeq(explanations, 1, Len(explanations) - 1), ", ")
         \o ", and " \o explanations[Len(explanations)] \o "."

\* [x for x in xs if x in ys]
RECURSIVE Keep(_, _)
Keep(xs, ys) ==
  IF Len(xs) = 0 THEN << >>
  ELSE When(In(Head(xs), ys), Head(xs)) \o Keep(Tail(xs), ys)

_generate_fit_explanation(profile, opportunity) ==
  LET criteria == opportunity.eligibility_criteria
      matching_backgrounds ==
        IF IsNone(criteria.background_requirements) THEN << >>
        ELSE Keep(profile.background_indicators, Val(criteria.background_requirements))
      explanations ==
           <<"You're a " \o Val(profile.education_level) \o " student, which matches the eligibility">>
        \o When(~IsNone(criteria.fields_of_study),
                "your " \o Val(profile.field_of_study) \o " background aligns with the program requirements")
        \o When(Len(matching_backgrounds) > 0,
                "your background (" \o JoinWith(matching_backgrounds, ", ")
                  \o ") makes you eligible for this targeted program")
        \o When(criteria.income_based /\ In("Financial support", profile.background_indicators),
                "this income-based program is designed for students needing financial support")
        \o When(criteria.merit_based, "this merit-based program recognizes academic achievement")
  IN JoinClauses(explanations)

_generate_miss_reason(opportunity, awareness_level) ==
  LET reasons ==
           (IF opportunity.visibility_level = "Low"
            THEN <<"this program has very low visibility and is rarely promoted in colleges">>
            ELSE IF opportunity.visibility_level = "Medium"
            THEN <<"this program is not widely advertised beyond official government portals">>
            ELSE << >>)
        \o (IF Contains(opportunity.name, "AICTE")
            THEN <<"AICTE programs are often buried in technical documentation">>
            ELSE IF Contains(opportunity.name, "State")
            THEN <<"state-level programs vary by region and lack centralized promotion">>
            ELSE IF Contains(opportunity.name, "NPTEL")
            THEN <<"students often see NPTEL only as a course platform, not for internships">>
            ELSE IF Contains(opportunity.name, "Ministry")
            THEN <<"ministry programs are scattered across multiple websites">>
            ELSE IF Contains(opportunity.name, "Central Sector")
            THEN <<"many students assume they need high merit for central scholarships">>
            ELSE << >>)
        \o When(awareness_level = "Low",
                "students with limited opportunity awareness often miss such programs")
  IN IF Len(reasons) = 0 THEN "Students often miss this opportunity due to lack of awareness."
     ELSE IF Len(reasons) = 1 THEN "Students usually miss this because " \o reasons[1] \o "."
     ELSE "Students usually miss this because " \o JoinWith(reasons, " and ") \o "."

OpportunityMatch(profile, analysis, opportunity, blindspots) ==
  [opportunity |-> opportunity,
   fit_explanation |-> _generate_fit_explanation(profile, opportunity),
   miss_reason |-> _generate_miss_reason(opportunity, analysis.awareness_level),
   miss_probability |-> calculate_miss_probability(opportunity.visibility_level, analysis.awareness_level),
   relevance_score |-> _calculate_relevance(profile, analysis, opportunity,
                         _calculate_blindspot_alignment(opportunity, blindspots))]

\* the first pass without the eligibility check
all_matches_unfiltered(profile, analysis, blindspots, opportunities) ==
  ListOf([i \in DOMAIN opportunities |-> OpportunityMatch(profile, analysis, opportunities[i], blindspots)])

\* the first pass: one match per eligible opportunity, in catalog order
all_eligible_matches(profile, analysis, blindspots, opportunities) ==
  LET eligible == SelectSeq(opportunities,
                            LAMBDA opportunity : is_eligible(profile, opportunity.eligibility_criteria))
  IN ListOf([i \in DOMAIN eligible |-> OpportunityMatch(profile, analysis, eligible[i], blindspots)])

\* match_opportunities without the cut to the top three
match_opportunities_uncut(profile, analysis, blindspots, kb) ==
  sort_by_relevance_score(
    all_eligible_matches(profile, analysis, blindspots, get_all_opportunities(kb)))

\* everything when there are fewer than 2, else [:min(3, len(...))]
top_matches(sorted) ==
  IF Len(sorted) < MinMatches THEN sorted
  ELSE Take(sorted, IF MaxMatches < Len(sorted) THEN MaxMatches ELSE Len(sorted))

match_opportunities(profile, analysis, blindspots, kb) ==
  top_matches(sort_by_relevance_score(
    all_eligible_matches(profile, analysis, blindspots, get_all_opportunities(kb))))

-----------------------------------------------------------------------------
(* explanation_generator.py; the bullet and the dash of the source text are
   written "*" and "--" here *)

generate_profile_summary(profile) ==
  "Hi " \o Val(profile.name) \o "! I've understood your profile:\n\n"
    \o "* You're a " \o ToString(Val(profile.year_of_study)) \o "-year "
    \o Val(profile.education_level) \o " student\n"
    \o "* Studying " \o Val(profile.degree) \o " in " \o Val(profile.field_of_study) \o "\n"
    \o "* At a " \o Val(profile.institution_type) \o " institution\n"
    \o (IF Len(profile.background_indicators) > 0
        THEN "* Background: " \o JoinWith(profile.background_indicators, ", ") \o "\n"
        ELSE "")
    \o "* Looking for: " \o JoinWith(profile.opportunity_goals, ", ") \o "\n"

\* [b.category for b in blindspots]
Categories(blindspots) == ListOf([i \in DOMAIN blindspots |-> blindspots[i].category])

generate_final_insight(profile, blindspots, matches) ==
  LET category_str == Lower(JoinWith(Categories(blindspots), " "))
  IN "Based on your profile, you're likely missing out on "
       \o (IF Contains(category_str, "scholarship")
           THEN "several scholarship opportunities that match your background. "
           ELSE IF Contains(category_str, "research") \/ Contains(category_str, "internship")
           THEN "opportunities in research, internships, and programs beyond the classroom. "
           ELSE "valuable opportunities that align with your goals and background. ")
       \o "The main barrier isn't your eligibility--it's simply not knowing these exist. "
       \o (IF Val(profile.missed_opportunities_before) = "Yes many times"
           THEN "Start by exploring the recommendations above, and consider setting up alerts for similar programs. "
           ELSE IF Val(profile.missed_opportunities_before) = "Once or twice"
           THEN "Take a moment to explore each recommendation--you're already eligible! "
           ELSE "Now that you're aware, take action on these opportunities--you're already qualified! ")
       \o "Awareness is the first step to opportunity."

-----------------------------------------------------------------------------
(* application_controller.py *)

MaxAge == 150
MaxYearOfStudy == 10

\* _validate_field_values with zero counted as a value out of range
_validate_field_values_rejecting_zero(profile) ==
     When(~IsNone(profile.age) /\ Val(profile.age) <= 0, "age (must be positive)")
  \o When(~IsNone(profile.age) /\ Val(profile.age) > MaxAge, "age (must be realistic)")
  \o When(~IsNone(profile.year_of_study) /\ Val(profile.year_of_study) <= 0,
          "year_of_study (must be positive)")
  \o When(~IsNone(profile.year_of_study) /\ Val(profile.year_of_study) > MaxYearOfStudy,
          "year_of_study (must be realistic)")

_validate_field_values(profile) ==
     When(~IsNone(profile.age) /\ Val(profile.age) < 0, "age (must be positive)")
  \o When(~IsNone(profile.age) /\ Val(profile.age) > MaxAge, "age (must be realistic)")
  \o When(~IsNone(profile.year_of_study) /\ Val(profile.year_of_study) < 0,
          "year_of_study (must be positive)")
  \o When(~IsNone(profile.year_of_study) /\ Val(profile.year_of_study) > MaxYearOfStudy,
          "year_of_study (must be realistic)")

_generate_fallback_profile_summary(profile) ==
  "Hi " \o Val(profile.name) \o "! I've understood your profile:\n\n"
    \o "* You're a " \o ToString(Val(profile.year_of_study)) \o "-year "
    \o Val(profile.education_level) \o " student\n"
    \o "* Studying " \o Val(profile.degree) \o " in " \o Val(profile.field_of_study) \o "\n"
    \o "* At a " \o Val(profile.institution_type) \o " institution\n"
    \o (IF Len(profile.background_indicators) > 0
        THEN "* Background: " \o JoinWith(profile.background_indicators, ", ") \o "\n"
        ELSE "")
    \o (IF Len(profile.opportunity_goals) > 0
        THEN "* Looking for: " \o JoinWith(profile.opportunity_goals, ", ") \o "\n"
        ELSE "")

_generate_fallback_blindspots(profile) ==
  << Blindspot("Government Scholarships",
               "Many students don't know about government scholarships available for their profile",
               F_0_8),
     Blindspot("Research and Internship Programs",
               "Students often focus on placements and miss research opportunities",
               F_0_7),
     Blindspot("Skill Development Programs",
               "Skill programs are often buried in government websites with poor outreach",
               F_0_6) >>

_generate_fallback_final_insight(profile, matches) ==
  "Based on your profile, you're likely missing out on several opportunities that match your background. "
    \o "The main barrier isn't your eligibility--it's simply not knowing these exist. "
    \o "Take a moment to explore each recommendation--you're already eligible! "
    \o "Awareness is the first step to opportunity."

_generate_no_matches_insight(profile) ==
  "Hi " \o Val(profile.name) \o ", based on your current profile, we don't have specific opportunities "
    \o "in our knowledge base that match your eligibility criteria right now. "
    \o "This doesn't mean opportunities don't exist--it means our current database is limited. "
    \o "We recommend checking back later as we continuously update our opportunity database. "
    \o "In the meantime, explore the blindspot categories we identified--they can guide your own research!"

KnowledgeBaseUnavailable ==
  "System Error: Opportunity knowledge base is currently unavailable. Please try again later."

UnexpectedError ==
  "An unexpected error occurred while processing your profile. Please try again."

\* the text as it came, empty or not
without_fallback(text, fallback) == text

\* text, or the fallback when text is empty or blank
or_fallback(text, fallback) == IF text = "" \/ IsBlank(text) THEN fallback ELSE text

\* the two returns of the try block, once the matches are known
final_insight_screen(profile, profile_summary, blindspots, matches) ==
  IF Len(matches) = 0
  THEN [valid |-> TRUE, profile_summary |-> profile_summary,
        blindspots |-> blindspots, matches |-> << >>,
        final_insight |-> _generate_no_matches_insight(profile),
        no_matches |-> TRUE]
  ELSE [valid |-> TRUE, profile_summary |-> profile_summary,
        blindspots |-> blindspots, matches |-> matches,
        final_insight |-> or_fallback(generate_final_insight(profile, blindspots, matches),
                                      _generate_fallback_final_insight(profile, matches))]

\* from the matching on, the blindspots being known
recommendations_screen(profile, analysis, profile_summary, blindspots, kb) ==
  final_insight_screen(profile, profile_summary, blindspots,
                       match_opportunities(profile, analysis, blindspots, kb))

\* from the outcome of identify_blindspots on; [raised |-> TRUE] when its
\* exception leaves the try block
blindspot_screen(profile, analysis, profile_summary, identified, kb) ==
  IF identified.raised THEN [raised |-> TRUE, value |-> [valid |-> FALSE]]
  ELSE [raised |-> FALSE,
        value |-> recommendations_screen(profile, analysis, profile_summary,
                    IF Len(identified.value) = 0
                    THEN _generate_fallback_blindspots(profile)
                    ELSE identified.value,
                    kb)]

\* from the analysis on
profile_screen(profile, analysis, kb) ==
  blindspot_screen(profile, analysis,
                   or_fallback(generate_profile_summary(profile),
                               _generate_fallback_profile_summary(profile)),
                   identify_blindspots(profile, analysis), kb)

\* the body of the try block; [raised |-> TRUE] when an exception leaves it
process_profile(profile, kb) == profile_screen(profile, analyze(profile), kb)

\* try: ... except Exception: return the error dict
try_except(outcome) ==
  IF outcome.raised
  THEN [valid |-> FALSE, error |-> UnexpectedError]
  ELSE outcome.value

\* handle_form_submission with the required-field check moved ahead of the
\* field-value check
handle_form_submission_required_first(profile, kb) ==
  LET invalid_fields == _validate_field_values(profile)
      checked == validate(profile)
  IN IF ~checked.is_valid
     THEN [valid |-> FALSE, missing_fields |-> checked.missing_fields]
     ELSE IF Len(invalid_fields) > 0
     THEN [valid |-> FALSE, invalid_fields |-> invalid_fields]
     ELSE IF Len(get_all_opportunities(kb)) = 0
     THEN [valid |-> FALSE, error |-> KnowledgeBaseUnavailable]
     ELSE try_except(process_profile(profile, kb))

\* handle_form_submission without the field-value check
handle_form_submission_values_unchecked(profile, kb) ==
  LET checked == validate(profile)
  IN IF ~checked.is_valid
     THEN [valid |-> FALSE, missing_fields |-> checked.missing_fields]
     ELSE IF Len(get_all_opportunities(kb)) = 0
     THEN [valid |-> FALSE, error |-> KnowledgeBaseUnavailable]
     ELSE try_except(process_profile(profile, kb))

handle_form_submission(profile, kb) ==
  LET invalid_fields == _validate_field_values(profile)
      checked == validate(profile)
  IN IF Len(invalid_fields) > 0
     THEN [valid |-> FALSE, invalid_fields |-> invalid_fields]
     ELSE IF ~checked.is_valid
     THEN [valid |-> FALSE, missing_fields |-> checked.missing_fields]
     ELSE IF Len(get_all_opportunities(kb)) = 0
     THEN [valid |-> FALSE, error |-> KnowledgeBaseUnavailable]
     ELSE try_except(process_profile(profile, kb))

-----------------------------------------------------------------------------
(* app.py *)

\* the lists of terms of _normalize_field_of_study, in the order they are tried
EngineeringTerms == <<"engineering", "engineer", "tech", "b.tech", "btech">>
ScienceTerms == <<"science", "physics", "chemistry", "biology", "bsc", "b.sc">>
CommerceTerms == <<"commerce", "bcom", "b.com", "accounting", "finance">>
ComputerTerms == <<"computer", "cs", "it", "information technology">>

\* any(term in field_lower for term in terms)
AnyTermIn(terms, field_lower) == \E i \in DOMAIN terms : Contains(field_lower, terms[i])

_normalize_field_of_study(field) ==
  LET field_lower == Strip(Lower(field))
  IN IF AnyTermIn(EngineeringTerms, field_lower) THEN "Engineering"
     ELSE IF AnyTermIn(ScienceTerms, field_lower) THEN "Science"
     ELSE IF AnyTermIn(CommerceTerms, field_lower) THEN "Commerce"
     ELSE IF AnyTermIn(ComputerTerms, field_lower) THEN "Engineering"
     ELSE field

-----------------------------------------------------------------------------
(* The inputs: profiles as a form or a test can build them *)

MaxGoals == 2        \* longest opportunity_goals list
MaxBackground == 1   \* longest background_indicators list
MaxDefects == 2      \* most fields of one profile that are absent or out of range

\* the strictly increasing index lists over 1..n of length at most k
RECURSIVE Picks(_, _)
Picks(n, k) ==
  IF k = 0 \/ n = 0 THEN {<< >>}
  ELSE Picks(n - 1, k) \cup {Append(p, n) : p \in Picks(n - 1, k - 1)}

\* the sub-lists of xs, order kept, of length at most k
SubLists(xs, k) == {[i \in 1..Len(p) |-> xs[p[i]]] : p \in Picks(Len(xs), k)}

GoalLists == SubLists(OpportunityGoal, MaxGoals)
BackgroundLists == SubLists(<<"Rural", "Financial support", "Disabled">>, MaxBackground)
FieldsOfStudy == {"Engineering", "Computer Science", "History"}
Genders == {None, Some("Female")}
Contexts == {None, Some("I want to build a startup")}

StudentProfile(name, age, education_level, degree, field_of_study, year_of_study, institution_type, background_indicators, opportunity_goals, missed_opportunities_before, gender, additional_context) ==
  [name |-> name, age |-> age, education_level |-> education_level, degree |-> degree,
   field_of_study |-> field_of_study, year_of_study |-> year_of_study,
   institution_type |-> institution_type, background_indicators |-> background_indicators,
   opportunity_goals |-> opportunity_goals,
   missed_opportunities_before |-> missed_opportunities_before,
   gender |-> gender, additional_context |-> additional_context]

\* students with every required field populated and in range, who differ in
\* what eligibility and scoring look at
ScoringProfiles ==
  {StudentProfile(Some("Asha"), Some(20), Some(el), Some("B.Tech"), Some(fs), Some(2),
                  Some(it), bg, goals, Some("Yes many times"), g, ctx) :
     el \in EducationLevel, fs \in FieldsOfStudy, it \in {"Government", "Private"},
     bg \in BackgroundLists, goals \in GoalLists \ {<< >>},
     g \in Genders, ctx \in Contexts}

\* students who differ in how often they have missed opportunities
AwarenessProfiles ==
  {StudentProfile(Some("Asha"), Some(20), Some(el), Some("B.Tech"), Some(fs), Some(2),
                  Some("Government"), << >>, <<OpportunityGoal[i]>>, Some(mo), None, None) :
     el \in EducationLevel, fs \in FieldsOfStudy, i \in DOMAIN OpportunityGoal,
     mo \in MissedOpportunityFrequency}

\* every required field populated and in range
CompleteProfiles == ScoringProfiles \cup AwarenessProfiles

\* how many of the nine checked fields of p are absent, blank or out of range
Defects(p) ==
  Cardinality({f \in 1..9 :
     CASE f = 1 -> MissingText(p.name)
       [] f = 2 -> MissingNumber(p.age) \/ Val(p.age) > MaxAge
       [] f = 3 -> IsNone(p.education_level)
       [] f = 4 -> MissingText(p.degree)
       [] f = 5 -> MissingText(p.field_of_study)
       [] f = 6 -> MissingNumber(p.year_of_study) \/ Val(p.year_of_study) > MaxYearOfStudy
       [] f = 7 -> IsNone(p.institution_type)
       [] f = 8 -> Len(p.opportunity_goals) = 0
       [] f = 9 -> IsNone(p.missed_opportunities_before)})

\* one student otherwise fixed, with up to MaxDefects fields absent, blank or out of range
DefectiveProfiles ==
  {p \in {StudentProfile(n, a, el, d, fs, y, it, bg, goals, mo, None, None) :
            n \in {None, Some(""), Some("  "), Some("Asha")},
            a \in {None, Some(-5), Some(0), Some(1), Some(20), Some(150), Some(151)},
            el \in {None, Some("UG")},
            d \in {None, Some(""), Some("B.Tech")},
            fs \in {None, Some(" "), Some("Engineering")},
            y \in {None, Some(-1), Some(0), Some(1), Some(2), Some(10), Some(11)},
            it \in {None, Some("Government")},
            bg \in {<< >>, <<"Rural">>},
            goals \in {<< >>, <<"Scholarships">>},
            mo \in {None, Some("No")}} :
     Defects(p) <= MaxDefects}

\* the shipped catalog with its first entry listed a second time, at the end
RelistedCatalog ==
  Append(OPPORTUNITIES, [OPPORTUNITIES[1] EXCEPT !.id = OPPORTUNITIES[1].id \o "-2"])

\* the shipped catalog, the catalog cut short, and the catalog with an entry relisted
Catalogs == {SubSeq(OPPORTUNITIES, 1, n) : n \in 0..Len(OPPORTUNITIES)} \cup {RelistedCatalog}

\* the students these catalogs are tried on
CatalogProfiles ==
  {p \in CompleteProfiles :
     /\ Val(p.institution_type) = "Government"
     /\ p.opportunity_goals = <<"Scholarships">>
     /\ Val(p.missed_opportunities_before) = "Yes many times"
     /\ IsNone(p.gender) /\ IsNone(p.additional_context)}

\* EligibilityCriteria(...) with the keyword arguments a caller sets
EligibilityCriteria(education_levels, fields_of_study, institution_types, background_requirements) ==
  [education_levels |-> education_levels, fields_of_study |-> fields_of_study,
   institution_types |-> institution_types, background_requirements |-> background_requirements,
   income_based |-> FALSE, merit_based |-> FALSE]

\* criteria a caller hands to is_eligible: those of the catalog, and
\* criteria with each optional constraint either unset or set
CriteriaTried ==
  {OPPORTUNITIES[k].eligibility_criteria : k \in DOMAIN OPPORTUNITIES}
  \cup {EligibilityCriteria(<<"UG", "PG">>, fs, it, bg) :
          fs \in {None, Some(<<"Engineering">>)},
          it \in {None, Some(<<"Government">>)},
          bg \in {None, Some(<<"Rural", "Disabled">>)}}

-----------------------------------------------------------------------------
(* The state machine: one student, one knowledge base, the calls made on them *)

Init ==
  /\ \/ knowledge_base = OPPORTUNITIES /\ student \in CompleteProfiles \cup DefectiveProfiles
     \/ knowledge_base \in Catalogs /\ student \in CatalogProfiles
  /\ pc = "start"
  /\ validation = None
  /\ analysis_out = None
  /\ probe = None
  /\ blindspots_out = None
  /\ matches_out = None
  /\ result = None
  /\ invalid_fields_out = None
  /\ patched = None
  /\ requests = << >>

\* profile.validate()
Validate ==
  /\ pc = "start"
  /\ validation' = Some(validate(student))
  /\ pc' = "validated"
  /\ UNCHANGED <<knowledge_base, student, analysis_out, probe, blindspots_out, matches_out, result,
               invalid_fields_out, patched, requests>>

\* ApplicationController()._validate_field_values(profile)
ValidateFieldValues ==
  /\ pc = "start"
  /\ invalid_fields_out' = Some(_validate_field_values(student))
  /\ pc' = "values_checked"
  /\ UNCHANGED <<knowledge_base, student, validation, analysis_out, probe, blindspots_out,
               matches_out, result, patched, requests>>

\* ProfileAnalyzer().analyze(profile), on a profile that validate() accepted
Analyze ==
  /\ pc = "validated"
  /\ Val(validation).is_valid
  /\ analysis_out' = Some(analyze(student))
  /\ pc' = "analyzed"
  /\ UNCHANGED <<knowledge_base, student, validation, probe, blindspots_out, matches_out, result,
               invalid_fields_out, patched, requests>>

\* OpportunityMatcher().calculate_miss_probability(visibility_level, analysis.awareness_level)
CalculateMissProbability(visibility_level) ==
  /\ pc = "analyzed"
  /\ probe' = Some([visibility_level |-> visibility_level,
                    awareness_level |-> Val(analysis_out).awareness_level,
                    miss_probability |->
                      calculate_miss_probability(visibility_level, Val(analysis_out).awareness_level)])
  /\ pc' = "probed"
  /\ UNCHANGED <<knowledge_base, student, validation, analysis_out, blindspots_out, matches_out, result,
               invalid_fields_out, patched, requests>>

\* OpportunityMatcher().is_eligible(profile, criteria), on a profile that validate() accepted
IsEligible(criteria) ==
  /\ pc = "validated"
  /\ Val(validation).is_valid
  /\ probe' = Some([criteria |-> criteria, eligible |-> is_eligible(student, criteria)])
  /\ pc' = "eligibility_checked"
  /\ UNCHANGED <<knowledge_base, student, validation, analysis_out, blindspots_out, matches_out, result,
               invalid_fields_out, patched, requests>>

\* BlindspotIdentifier().identify_blindspots(profile, analysis)
IdentifyBlindspots ==
  /\ pc = "analyzed"
  /\ blindspots_out' = Some(identify_blindspots(student, Val(analysis_out)))
  /\ pc' = "identified"
  /\ UNCHANGED <<knowledge_base, student, validation, analysis_out, probe, matches_out, result,
               invalid_fields_out, patched, requests>>

\* OpportunityMatcher()._calculate_blindspot_alignment(opportunity, blindspots), for an
\* entry of the catalog and the first n of the blindspots identified
CalculateBlindspotAlignment(k, n) ==
  /\ pc = "identified"
  /\ ~Val(blindspots_out).raised
  /\ LET blindspots == Take(Val(blindspots_out).value, n)
     IN probe' = Some([opportunity |-> knowledge_base[k],
                       blindspots |-> blindspots,
                       alignment |-> _calculate_blindspot_alignment(knowledge_base[k], blindspots)])
  /\ pc' = "aligned"
  /\ UNCHANGED <<knowledge_base, student, validation, analysis_out, blindspots_out, matches_out, result,
               invalid_fields_out, patched, requests>>

\* OpportunityMatcher().match_opportunities(profile, analysis, blindspots)
MatchOpportunities ==
  /\ pc = "identified"
  /\ ~Val(blindspots_out).raised
  /\ matches_out' = Some(match_opportunities(student, Val(analysis_out),
                                             Val(blindspots_out).value, knowledge_base))
  /\ pc' = "matched"
  /\ UNCHANGED <<knowledge_base, student, validation, analysis_out, probe, blindspots_out, result,
               invalid_fields_out, patched, requests>>

\* ApplicationController().handle_form_submission(profile)
HandleFormSubmission ==
  /\ pc = "start"
  /\ result' = Some(handle_form_submission(student, knowledge_base))
  /\ pc' = "submitted"
  /\ UNCHANGED <<knowledge_base, student, validation, analysis_out, probe, blindspots_out, matches_out,
               invalid_fields_out, patched, requests>>

\* submit_form, once handle_form_submission has accepted the profile:
\* 'field': _normalize_field_of_study(profile.field_of_study)
NormalizeFieldOfStudy ==
  /\ pc = "submitted"
  /\ Val(result).valid
  /\ probe' = Some([field |-> Val(student.field_of_study),
                    normalized |-> _normalize_field_of_study(Val(student.field_of_study))])
  /\ pc' = "normalized"
  /\ UNCHANGED <<knowledge_base, student, validation, analysis_out, blindspots_out, matches_out, result,
               invalid_fields_out, patched, requests>>

Next ==
  \/ Validate
  \/ ValidateFieldValues
  \/ Analyze
  \/ \E visibility_level \in Levels : CalculateMissProbability(visibility_level)
  \/ \E criteria \in CriteriaTried : IsEligible(criteria)
  \/ IdentifyBlindspots
  \/ \E k \in DOMAIN knowledge_base : \E n \in {0, MaxBlindspots} : CalculateBlindspotAlignment(k, n)
  \/ MatchOpportunities
  \/ HandleFormSubmission
  \/ NormalizeFieldOfStudy

Spec == Init /\ [][Next]_vars

-----------------------------------------------------------------------------
(* handle_form_submission statement by statement: the submissions in        *)
(* progress on one controller, each with its own locals, and the            *)
(* collaborator a test may have replaced                                     *)

MaxSubmissions == 2   \* most submissions in progress on the controller at once

\* the submissions one controller is given
Submissions == 1..MaxSubmissions

\* the profiles of the tests of handle_form_submission
StudentOne ==
  StudentProfile(Some("Student One"), Some(20), Some("UG"), Some("B.Tech"), Some("Computer Science"),
                 Some(2), Some("Government"), <<"Rural">>, <<"Scholarships">>,
                 Some("Yes many times"), None, None)
StudentTwo ==
  StudentProfile(Some("Student Two"), Some(22), Some("PG"), Some("M.Sc"), Some("Physics"),
                 Some(1), Some("Private"), <<"First-generation">>, <<"Research">>,
                 Some("No"), None, None)

\* the two students, and one of them with an empty name and an age of zero,
\* and with both a negative age and an empty degree
SubmittedProfiles ==
  {StudentOne, StudentTwo,
   [StudentOne EXCEPT !.name = Some(""), !.age = Some(0)],
   [StudentOne EXCEPT !.age = Some(-5), !.degree = Some("")]}

\* the shipped catalog, no catalog, and a catalog of one opportunity
SubmissionCatalogs == {OPPORTUNITIES, << >>, SubSeq(OPPORTUNITIES, 1, 1)}

\* unittest.mock.patch of one collaborator: side_effect=Exception(...),
\* return_value=[] or "", and a whitespace-only return_value for the two texts
Patches ==
  {[method |-> m, effect |-> "raises"] :
     m \in {"get_all_opportunities", "analyze", "generate_profile_summary",
            "identify_blindspots", "match_opportunities", "generate_final_insight"}}
  \cup {[method |-> m, effect |-> "returns empty"] :
          m \in {"get_all_opportunities", "generate_profile_summary", "identify_blindspots",
                 "match_opportunities", "generate_final_insight"}}
  \cup {[method |-> m, effect |-> "returns blank"] :
          m \in {"generate_profile_summary", "generate_final_insight"}}

\* a call that returns v
Returns(v) == [raised |-> FALSE, value |-> v]

\* the outcome of calling method: what the patch dictates, or else what the code does
Call(method, empty, real) ==
  IF ~IsNone(patched) /\ Val(patched).method = method
  THEN CASE Val(patched).effect = "raises" -> [raised |-> TRUE, value |-> empty]
         [] Val(patched).effect = "returns empty" -> Returns(empty)
         [] Val(patched).effect = "returns blank" -> Returns("   ")
  ELSE real

\* a submission that enters the try block at once, nothing validated
NewSubmissionUnvalidated(profile) ==
  [profile |-> profile, pc |-> "analyze", analysis |-> None,
   profile_summary |-> None, blindspots |-> None, matches |-> None,
   calls |-> << >>, result |-> None]

\* a submission that has just been made: no statement executed yet
NewSubmission(profile) ==
  [profile |-> profile, pc |-> "_validate_field_values", analysis |-> None,
   profile_summary |-> None, blindspots |-> None, matches |-> None,
   calls |-> << >>, result |-> None]

\* the analysis kept in an attribute of the controller instead of a local:
\* another submission that has analysed its profile has overwritten it
analysis_on_controller(r) ==
  LET others == {q \in DOMAIN requests \ {r} : ~IsNone(requests[q].analysis)}
  IN IF others = {} THEN Val(requests[r].analysis)
     ELSE Val(requests[CHOOSE q \in others : TRUE].analysis)

\* the locals the statements after analyze read
analysis_of(r) == Val(requests[r].analysis)
blindspots_of(r) == Val(requests[r].blindspots)

\* Proceed with the matcher working on the catalog list itself instead of a
\* copy, and cutting that list to the matches it returns
ProceedOnSharedCatalog(r, changed) ==
  /\ requests' = [requests EXCEPT
                    ![r] = changed @@ [@ EXCEPT !.calls = Append(@, requests[r].pc)]]
  /\ knowledge_base' =
       IF "matches" \in DOMAIN changed
       THEN ListOf([i \in DOMAIN Val(changed.matches) |-> Val(changed.matches)[i].opportunity])
       ELSE knowledge_base
  /\ UNCHANGED <<student, pc, validation, analysis_out, probe, blindspots_out,
                 matches_out, result, invalid_fields_out, patched>>

\* submission r makes the call it stands at and goes on with these locals changed
Proceed(r, changed) ==
  /\ requests' = [requests EXCEPT
                    ![r] = changed @@ [@ EXCEPT !.calls = Append(@, requests[r].pc)]]
  /\ UNCHANGED <<knowledge_base, student, pc, validation, analysis_out, probe, blindspots_out,
                 matches_out, result, invalid_fields_out, patched>>

\* return dict
Return(r, dict) == Proceed(r, [pc |-> "returned", result |-> Some(dict)])

\* an exception inside the try block: except Exception returns the error dict
Except(r) == Return(r, [valid |-> FALSE, error |-> UnexpectedError])

\* an exception outside the try block leaves handle_form_submission
Propagate(r) == Proceed(r, [pc |-> "raised"])

\* either nothing is replaced and any of the profiles meets any of the catalogs,
\* or one collaborator is replaced and a valid profile is submitted, as in the tests
SubmissionInit ==
  /\ \/ /\ patched = None
        /\ knowledge_base \in SubmissionCatalogs
        /\ requests \in [Submissions -> {NewSubmission(p) : p \in SubmittedProfiles}]
     \/ /\ patched \in {Some(p) : p \in Patches}
        /\ knowledge_base = OPPORTUNITIES
        /\ requests \in {[r \in Submissions |-> NewSubmission(p)] : p \in {StudentOne, StudentTwo}}
  /\ student = None
  /\ pc = "submissions"
  /\ validation = None
  /\ analysis_out = None
  /\ probe = None
  /\ blindspots_out = None
  /\ matches_out = None
  /\ result = None
  /\ invalid_fields_out = None

\* invalid_fields = self._validate_field_values(profile); if invalid_fields: return
CallValidateFieldValues(r) ==
  /\ requests[r].pc = "_validate_field_values"
  /\ LET invalid_fields == _validate_field_values(requests[r].profile)
     IN IF Len(invalid_fields) > 0
        THEN Return(r, [valid |-> FALSE, invalid_fields |-> invalid_fields])
        ELSE Proceed(r, [pc |-> "validate"])

\* is_valid, missing_fields = profile.validate(); if not is_valid: return
CallValidate(r) ==
  /\ requests[r].pc = "validate"
  /\ LET checked == validate(requests[r].profile)
     IN IF ~checked.is_valid
        THEN Return(r, [valid |-> FALSE, missing_fields |-> checked.missing_fields])
        ELSE Proceed(r, [pc |-> "get_all_opportunities"])

\* opportunities = get_all_opportunities(); if not opportunities: return
CallGetAllOpportunities(r) ==
  /\ requests[r].pc = "get_all_opportunities"
  /\ LET opportunities == Call("get_all_opportunities", << >>,
                               Returns(get_all_opportunities(knowledge_base)))
     IN IF opportunities.raised THEN Propagate(r)
        ELSE IF Len(opportunities.value) = 0
        THEN Return(r, [valid |-> FALSE, error |-> KnowledgeBaseUnavailable])
        ELSE Proceed(r, [pc |-> "analyze"])

\* analysis = self.profile_analyzer.analyze(profile)
CallAnalyze(r) ==
  /\ requests[r].pc = "analyze"
  /\ LET analysis == Call("analyze", << >>, Returns(analyze(requests[r].profile)))
     IN IF analysis.raised THEN Except(r)
        ELSE Proceed(r, [pc |-> "generate_profile_summary", analysis |-> Some(analysis.value)])

\* profile_summary = self.explanation_generator.generate_profile_summary(profile),
\* and its fallback
CallGenerateProfileSummary(r) ==
  /\ requests[r].pc = "generate_profile_summary"
  /\ LET profile_summary == Call("generate_profile_summary", "",
                                 Returns(generate_profile_summary(requests[r].profile)))
     IN IF profile_summary.raised THEN Except(r)
        ELSE Proceed(r, [pc |-> "identify_blindspots",
                         profile_summary |->
                           Some(or_fallback(profile_summary.value,
                                            _generate_fallback_profile_summary(requests[r].profile)))])

\* blindspots = self.blindspot_identifier.identify_blindspots(profile, analysis),
\* and its fallback
CallIdentifyBlindspots(r) ==
  /\ requests[r].pc = "identify_blindspots"
  /\ LET blindspots == Call("identify_blindspots", << >>,
                            identify_blindspots(requests[r].profile, analysis_of(r)))
     IN IF blindspots.raised THEN Except(r)
        ELSE Proceed(r, [pc |-> "match_opportunities",
                         blindspots |->
                           Some(IF Len(blindspots.value) = 0
                                THEN _generate_fallback_blindspots(requests[r].profile)
                                ELSE blindspots.value)])

\* the matching statement with the check for an empty list left out
CallMatchOpportunitiesUnchecked(r) ==
  /\ requests[r].pc = "match_opportunities"
  /\ LET matches == Call("match_opportunities", << >>,
                         Returns(match_opportunities(requests[r].profile, analysis_of(r),
                                                     blindspots_of(r), knowledge_base)))
     IN IF matches.raised THEN Except(r)
        ELSE Proceed(r, [pc |-> "generate_final_insight", matches |-> Some(matches.value)])

\* matches = self.opportunity_matcher.match_opportunities(profile, analysis, blindspots);
\* if not matches: return
CallMatchOpportunities(r) ==
  /\ requests[r].pc = "match_opportunities"
  /\ LET matches == Call("match_opportunities", << >>,
                         Returns(match_opportunities(requests[r].profile, analysis_of(r),
                                                     blindspots_of(r), knowledge_base)))
     IN IF matches.raised THEN Except(r)
        ELSE IF Len(matches.value) = 0
        THEN Return(r, [valid |-> TRUE,
                        profile_summary |-> Val(requests[r].profile_summary),
                        blindspots |-> blindspots_of(r),
                        matches |-> << >>,
                        final_insight |-> _generate_no_matches_insight(requests[r].profile),
                        no_matches |-> TRUE])
        ELSE Proceed(r, [pc |-> "generate_final_insight", matches |-> Some(matches.value)])

\* final_insight = self.explanation_generator.generate_final_insight(profile, blindspots,
\* matches), its fallback, and the return of the whole answer
CallGenerateFinalInsight(r) ==
  /\ requests[r].pc = "generate_final_insight"
  /\ LET final_insight == Call("generate_final_insight", "",
                               Returns(generate_final_insight(requests[r].profile, blindspots_of(r),
                                                              Val(requests[r].matches))))
     IN IF final_insight.raised THEN Except(r)
        ELSE Return(r, [valid |-> TRUE,
                        profile_summary |-> Val(requests[r].profile_summary),
                        blindspots |-> blindspots_of(r),
                        matches |-> Val(requests[r].matches),
                        final_insight |->
                          or_fallback(final_insight.value,
                                      _generate_fallback_final_insight(requests[r].profile,
                                                                       Val(requests[r].matches)))])

SubmissionNext ==
  \E r \in Submissions :
    \/ CallValidateFieldValues(r)
    \/ CallValidate(r)
    \/ CallGetAllOpportunities(r)
    \/ CallAnalyze(r)
    \/ CallGenerateProfileSummary(r)
    \/ CallIdentifyBlindspots(r)
    \/ CallMatchOpportunities(r)
    \/ CallGenerateFinalInsight(r)

SubmissionSpec == SubmissionInit /\ [][SubmissionNext]_vars

-----------------------------------------------------------------------------
(* The properties *)

\* the values of a list, as a set
Range(xs) == {xs[i] : i \in DOMAIN xs}

\* the place of acc[k] when acc is ordered by score, the greater first and
\* the earlier first among equal scores
Place(acc, k) ==
  1 + Cardinality({j \in DOMAIN acc :
                     \/ FLess(acc[k].relevance_score, acc[j].relevance_score)
                     \/ j < k /\ acc[j].relevance_score = acc[k].relevance_score})

\* C1: for every profile that validate() accepts and the analysis analyze()
\* derives from it, identify_blindspots returns (it does not raise) a list of
\* at least 3 and at most 5 blindspots.
C1_BlindspotCount ==
  pc \in {"identified", "matched"} =>
    /\ ~Val(blindspots_out).raised
    /\ Len(Val(blindspots_out).value) >= 3
    /\ Len(Val(blindspots_out).value) <= 5

\* C1 witness: a student for whom no rule but the last fallbacks fires, and
\* who is returned exactly three blindspots, the final fallback among them
C1_Witness ==
  /\ pc = "identified"
  /\ Len(Val(blindspots_out).value) = 3
  /\ \E i \in DOMAIN Val(blindspots_out).value :
       Val(blindspots_out).value[i].category = "Career Guidance and Mentorship Programs"

\* C2: match_opportunities returns only entries of the catalog for which
\* is_eligible(profile, opportunity.eligibility_criteria) is true, whatever
\* the relevance score of the entries it leaves out.
C2_OnlyEligible ==
  pc = "matched" =>
    \A i \in DOMAIN Val(matches_out) :
      /\ Val(matches_out)[i].opportunity \in Range(knowledge_base)
      /\ is_eligible(student, Val(matches_out)[i].opportunity.eligibility_criteria)

\* C2 witness: an ineligible entry of the catalog that would have scored
\* above a returned match is not among the matches
C2_Witness ==
  /\ pc = "matched"
  /\ \E k \in DOMAIN knowledge_base :
       /\ ~is_eligible(student, knowledge_base[k].eligibility_criteria)
       /\ knowledge_base[k] \notin {Val(matches_out)[i].opportunity : i \in DOMAIN Val(matches_out)}
       /\ \E i \in DOMAIN Val(matches_out) :
            FLess(Val(matches_out)[i].relevance_score,
                  OpportunityMatch(student, Val(analysis_out), knowledge_base[k],
                                   Val(blindspots_out).value).relevance_score)

\* the entries of the catalog the student is eligible for
EligibleEntries == {k \in DOMAIN knowledge_base : is_eligible(student, knowledge_base[k].eligibility_criteria)}

\* the relevance score match_opportunities gives entry k of the catalog
ScoreOfEntry(k) ==
  OpportunityMatch(student, Val(analysis_out), knowledge_base[k], Val(blindspots_out).value).relevance_score

\* the entries of the catalog among the returned matches
ReturnedEntries ==
  {k \in DOMAIN knowledge_base :
     \E i \in DOMAIN Val(matches_out) : Val(matches_out)[i].opportunity = knowledge_base[k]}

\* C3: match_opportunities returns between 0 and 3 items: with fewer than 2
\* eligible entries exactly those entries, otherwise exactly min(3, eligible)
\* items, none of which scores below an eligible entry that was left out.
C3_MatchCount ==
  pc = "matched" =>
    LET eligible == Cardinality(EligibleEntries)
        count == Len(Val(matches_out))
    IN /\ count >= 0 /\ count <= 3
       /\ Cardinality(ReturnedEntries) = count
       /\ ReturnedEntries \subseteq EligibleEntries
       /\ eligible < 2 => ReturnedEntries = EligibleEntries
       /\ eligible >= 2 =>
            /\ count = (IF eligible < 3 THEN eligible ELSE 3)
            /\ \A k \in EligibleEntries \ ReturnedEntries :
                 \A i \in DOMAIN Val(matches_out) :
                   FLeq(ScoreOfEntry(k), Val(matches_out)[i].relevance_score)

\* C3 witness: a catalog with exactly one entry the student is eligible for,
\* returned alone
C3_Witness ==
  /\ pc = "matched"
  /\ Cardinality(EligibleEntries) = 1
  /\ Len(knowledge_base) > 1
  /\ Len(Val(matches_out)) = 1

\* C4: against the shipped catalog, the matches of a valid profile run
\* through analyze, identify_blindspots and match_opportunities number at
\* least 2 and at most 3.
C4_ShippedCatalogCount ==
  (pc = "matched" /\ knowledge_base = OPPORTUNITIES) =>
    (Len(Val(matches_out)) >= 2 /\ Len(Val(matches_out)) <= 3)

\* C4 witness: a student eligible for only two entries of the shipped catalog
\* is returned both
C4_Witness ==
  /\ pc = "matched"
  /\ knowledge_base = OPPORTUNITIES
  /\ Cardinality(EligibleEntries) = 2
  /\ Len(Val(matches_out)) = 2

\* C5: the list identify_blindspots returns is the accumulated list ordered
\* by relevance score descending, blindspots of equal score in the order
\* their rules were evaluated, and cut to the first five of that order.
C5_BlindspotOrder ==
  pc = "identified" =>
    LET acc == accumulated_blindspots(student, Val(analysis_out))
        returned == Val(blindspots_out).value
    IN /\ \A i \in 1..(Len(returned) - 1) :
            FLeq(returned[i + 1].relevance_score, returned[i].relevance_score)
       /\ Len(returned) = (IF Len(acc) < 5 THEN Len(acc) ELSE 5)
       /\ \A k \in DOMAIN acc :
            Place(acc, k) <= 5 => returned[Place(acc, k)] = acc[k]

\* C5 witness: more than five rules fire, in an order that is not the order
\* of their scores, and the list is cut to five
C5_Witness ==
  /\ pc = "identified"
  /\ Len(accumulated_blindspots(student, Val(analysis_out))) > 5
  /\ Len(Val(blindspots_out).value) = 5

\* the matches of every eligible entry, in catalog order
EligibleMatches ==
  all_eligible_matches(student, Val(analysis_out), Val(blindspots_out).value, knowledge_base)

\* C6: the matches are in descending order of relevance score (no item
\* scores below the next), and eligible entries of equal score keep their
\* catalog order, among the returned matches and across the cut: an entry
\* left out never precedes, in the catalog, a returned match of the same score.
C6_MatchOrder ==
  pc = "matched" =>
    LET all == EligibleMatches
        returned == Val(matches_out)
        cut == IF Len(all) < 2 THEN Len(all) ELSE IF Len(all) < 3 THEN Len(all) ELSE 3
    IN /\ \A i \in 1..(Len(returned) - 1) :
            FLeq(returned[i + 1].relevance_score, returned[i].relevance_score)
       /\ Len(returned) = cut
       /\ \A k \in DOMAIN all :
            Place(all, k) <= cut => returned[Place(all, k)] = all[k]

\* C6 witness: two eligible entries tie on the score of the third match; the
\* earlier in the catalog is returned third and the later is left out
C6_Witness ==
  /\ pc = "matched"
  /\ Len(Val(matches_out)) = 3
  /\ \E k \in DOMAIN EligibleMatches :
       /\ EligibleMatches[k].relevance_score = Val(matches_out)[3].relevance_score
       /\ EligibleMatches[k].opportunity # Val(matches_out)[3].opportunity
       /\ \A i \in DOMAIN Val(matches_out) :
            EligibleMatches[k].opportunity # Val(matches_out)[i].opportunity

\* the table of the miss probability, by visibility and by awareness
MissProbabilityTable ==
  [visibility \in Levels |->
     [awareness \in Levels |->
        CASE visibility = "Low" -> "High"
          [] visibility = "Medium" /\ awareness = "Low" -> "High"
          [] visibility = "Medium" /\ awareness = "Medium" -> "Medium"
          [] visibility = "Medium" /\ awareness = "High" -> "Low"
          [] visibility = "High" /\ awareness = "Low" -> "Medium"
          [] OTHER -> "Low"]]

\* C7: calculate_miss_probability is the fixed table: Low visibility gives
\* High for every awareness; Medium visibility gives High, Medium, Low for
\* Low, Medium, High awareness; High visibility gives Medium for Low
\* awareness and Low otherwise.
C7_MissProbabilityTable ==
  pc = "probed" =>
    Val(probe).miss_probability =
      MissProbabilityTable[Val(probe).visibility_level][Val(probe).awareness_level]

\* C7 witness: a High-visibility opportunity put to a student of Low
\* awareness is rated Medium
C7_Witness ==
  /\ pc = "probed"
  /\ Val(probe).visibility_level = "High"
  /\ Val(probe).awareness_level = "Low"
  /\ Val(probe).miss_probability = "Medium"

\* the nine fields validate() requires
RequiredFieldNames ==
  {"name", "age", "education_level", "degree", "field_of_study", "year_of_study",
   "institution_type", "opportunity_goals", "missed_opportunities_before"}

\* the required fields of p that are absent, blank or not positive
MissingRequired(p) ==
  {f \in RequiredFieldNames :
     CASE f = "name" -> IsNone(p.name) \/ IsBlank(Val(p.name))
       [] f = "age" -> IsNone(p.age) \/ Val(p.age) <= 0
       [] f = "education_level" -> IsNone(p.education_level)
       [] f = "degree" -> IsNone(p.degree) \/ IsBlank(Val(p.degree))
       [] f = "field_of_study" -> IsNone(p.field_of_study) \/ IsBlank(Val(p.field_of_study))
       [] f = "year_of_study" -> IsNone(p.year_of_study) \/ Val(p.year_of_study) <= 0
       [] f = "institution_type" -> IsNone(p.institution_type)
       [] f = "opportunity_goals" -> p.opportunity_goals = << >>
       [] f = "missed_opportunities_before" -> IsNone(p.missed_opportunities_before)}

\* every required field of p is populated and in range
Populated(p) ==
  /\ MissingRequired(p) = {}
  /\ Val(p.age) <= 150
  /\ Val(p.year_of_study) <= 10

KnownFieldNames ==
  {"name", "age", "education_level", "degree", "field_of_study", "year_of_study",
   "institution_type", "background_indicators", "opportunity_goals",
   "missed_opportunities_before"}

\* C9: for every profile missing a required field (absent, empty or
\* whitespace-only text, non-positive age or year, empty goals) validate()
\* returns ok = false and a non-empty missing-list that holds only known
\* field names and names every field that is missing.
C9_IncompleteRejected ==
  (pc = "validated" /\ MissingRequired(student) # {}) =>
    /\ ~Val(validation).is_valid
    /\ Len(Val(validation).missing_fields) > 0
    /\ Range(Val(validation).missing_fields) \subseteq KnownFieldNames
    /\ MissingRequired(student) \subseteq Range(Val(validation).missing_fields)

\* C9 witness: a whitespace-only name and an age of zero are both named
C9_Witness ==
  /\ pc = "validated"
  /\ ~IsNone(student.name) /\ Val(student.name) # "" /\ IsBlank(Val(student.name))
  /\ student.age = Some(0)
  /\ {"name", "age"} \subseteq Range(Val(validation).missing_fields)

\* C10: a profile whose background_indicators list is empty is rejected:
\* validate() returns ok = false with "background_indicators" in the
\* missing-list, and handle_form_submission returns valid = False with
\* "background_indicators" in missing_fields.
C10_EmptyBackgroundRejected ==
  /\ (pc = "validated" /\ student.background_indicators = << >>) =>
       /\ ~Val(validation).is_valid
       /\ In("background_indicators", Val(validation).missing_fields)
  /\ (pc = "submitted" /\ student.background_indicators = << >>) =>
       /\ ~Val(result).valid
       /\ "missing_fields" \in DOMAIN Val(result)
       /\ In("background_indicators", Val(result).missing_fields)

\* p has an age or a year of study below zero or above the maximum
OutOfRange(p) ==
  \/ ~IsNone(p.age) /\ (Val(p.age) < 0 \/ Val(p.age) > 150)
  \/ ~IsNone(p.year_of_study) /\ (Val(p.year_of_study) < 0 \/ Val(p.year_of_study) > 10)

\* C11: in handle_form_submission the field-value check runs before the
\* required-field check: for a profile with both an age or year of study
\* below zero or above the maximum and a missing required field the result
\* carries invalid_fields and no missing_fields key, and an age of -5 yields
\* an age violation in invalid_fields.
C11_InvalidValuesFirst ==
  /\ (pc = "submitted" /\ OutOfRange(student) /\ MissingRequired(student) # {}) =>
       /\ ~Val(result).valid
       /\ "invalid_fields" \in DOMAIN Val(result)
       /\ "missing_fields" \notin DOMAIN Val(result)
       /\ Len(Val(result).invalid_fields) > 0
  /\ (pc = "submitted" /\ student.age = Some(-5)) =>
       /\ "invalid_fields" \in DOMAIN Val(result)
       /\ In("age (must be positive)", Val(result).invalid_fields)

\* C11 witness: an age of -5 together with a blank name is answered with the
\* age violation alone
C11_Witness ==
  /\ pc = "submitted"
  /\ student.age = Some(-5)
  /\ "name" \in MissingRequired(student)
  /\ Val(result) = [valid |-> FALSE, invalid_fields |-> <<"age (must be positive)">>]

\* the violations _validate_field_values can report
AgeViolations == {"age (must be positive)", "age (must be realistic)"}
YearViolations == {"year_of_study (must be positive)", "year_of_study (must be realistic)"}

\* C12 as the specification states it: validate_field_values reports an age
\* violation exactly when age is outside (0,150] and a year_of_study
\* violation exactly when year_of_study is outside (0,10], and reports
\* nothing for values inside those ranges.
C12_OpenAtZero ==
  pc = "values_checked" =>
    LET reported == Range(Val(invalid_fields_out))
    IN /\ ~IsNone(student.age) =>
            ((reported \cap AgeViolations # {})
               <=> (Val(student.age) <= 0 \/ Val(student.age) > 150))
       /\ ~IsNone(student.year_of_study) =>
            ((reported \cap YearViolations # {})
               <=> (Val(student.year_of_study) <= 0 \/ Val(student.year_of_study) > 10))
       /\ reported \subseteq AgeViolations \cup YearViolations

\* C12, amended: validate_field_values reports an age violation exactly
\* when age is present and below 0 or above 150, and a year_of_study
\* violation exactly when year_of_study is present and below 0 or above 10;
\* it reports nothing else, so nothing for an absent value or for a value in
\* [0,150] and [0,10], zero included.
C12_ClosedAtZero ==
  pc = "values_checked" =>
    LET reported == Range(Val(invalid_fields_out))
    IN /\ (reported \cap AgeViolations # {})
            <=> (~IsNone(student.age) /\ (Val(student.age) < 0 \/ Val(student.age) > 150))
       /\ (reported \cap YearViolations # {})
            <=> (~IsNone(student.year_of_study)
                   /\ (Val(student.year_of_study) < 0 \/ Val(student.year_of_study) > 10))
       /\ reported \subseteq AgeViolations \cup YearViolations

\* C12 witness: an age of zero and a year of study of 11; only the year is reported
C12_Witness ==
  /\ pc = "values_checked"
  /\ student.age = Some(0)
  /\ student.year_of_study = Some(11)
  /\ Val(invalid_fields_out) = <<"year_of_study (must be realistic)">>

\* C20: for every valid profile that has the Financial support background
\* indicator and the Scholarships goal, the first blindspot returned by
\* identify_blindspots is "Income-based Central Government Scholarships"
\* with relevance score 0.9.
C20_IncomeScholarshipsFirst ==
  (/\ pc = "identified"
   /\ In("Financial support", student.background_indicators)
   /\ In("Scholarships", student.opportunity_goals)) =>
    /\ ~Val(blindspots_out).raised
    /\ Len(Val(blindspots_out).value) > 0
    /\ Val(blindspots_out).value[1].category = "Income-based Central Government Scholarships"
    /\ Val(blindspots_out).value[1].relevance_score = F_0_9

\* C20 witness: the undergraduate Computer Science student at a Government
\* institution with Financial support and the Scholarships goal, who gets
\* the income-based scholarships ahead of lower-scored blindspots
C20_Witness ==
  /\ pc = "identified"
  /\ Val(student.education_level) = "UG"
  /\ Val(student.field_of_study) = "Computer Science"
  /\ Val(student.institution_type) = "Government"
  /\ student.background_indicators = <<"Financial support">>
  /\ student.opportunity_goals = <<"Scholarships">>
  /\ Val(blindspots_out).value[1].category = "Income-based Central Government Scholarships"
  /\ Len(Val(blindspots_out).value) >= MinBlindspots
  /\ FLess(Val(blindspots_out).value[2].relevance_score, F_0_9)

\* the calls of the try block, and the keys of an answer that come from them
ScoringCalls ==
  {"analyze", "generate_profile_summary", "identify_blindspots", "match_opportunities",
   "generate_final_insight"}
ScoringKeys == {"profile_summary", "blindspots", "matches", "final_insight", "no_matches"}

\* C13: validation errors are detected before any scoring work begins and
\* are never mixed with downstream results: a submission whose profile has a
\* value out of range or a missing required field never makes a call of the
\* try block, and whenever handle_form_submission returns invalid_fields or
\* missing_fields, no analyze, identify or match step has run and the
\* result has none of profile_summary, blindspots, matches, final_insight.
C13_ValidationBeforeScoring ==
  \A r \in DOMAIN requests :
    /\ (OutOfRange(requests[r].profile) \/ MissingRequired(requests[r].profile) # {}) =>
         Range(requests[r].calls) \cap ScoringCalls = {}
    /\ (/\ requests[r].pc = "returned"
        /\ DOMAIN Val(requests[r].result) \cap {"invalid_fields", "missing_fields"} # {}) =>
         /\ Range(requests[r].calls) \cap ScoringCalls = {}
         /\ IsNone(requests[r].analysis)
         /\ IsNone(requests[r].blindspots)
         /\ IsNone(requests[r].matches)
         /\ DOMAIN Val(requests[r].result) \cap ScoringKeys = {}
         /\ ~Val(requests[r].result).valid

\* C13 witness: one submission has been answered with missing_fields after
\* the two validation calls alone, while the other one on the same
\* controller has gone through analysis and matching
C13_Witness ==
  /\ requests # << >>
  /\ requests[1].pc = "returned"
  /\ "missing_fields" \in DOMAIN Val(requests[1].result)
  /\ requests[1].calls = <<"_validate_field_values", "validate">>
  /\ "match_opportunities" \in Range(requests[2].calls)

\* the controller's get_all_opportunities() answers with an empty list
EmptyCatalog ==
  \/ knowledge_base = << >>
  \/ patched = Some([method |-> "get_all_opportunities", effect |-> "returns empty"])

\* C14: when the catalog is empty, handle_form_submission on a valid
\* profile returns valid = false with an error message mentioning the
\* knowledge base being unavailable, and no analysis, blindspot or match
\* computation is attempted.
C14_EmptyCatalogError ==
  \A r \in DOMAIN requests :
    (EmptyCatalog /\ Populated(requests[r].profile)) =>
      /\ Range(requests[r].calls) \cap ScoringCalls = {}
      /\ IsNone(requests[r].analysis) /\ IsNone(requests[r].blindspots)
      /\ IsNone(requests[r].matches)
      /\ requests[r].pc \in {"_validate_field_values", "validate", "get_all_opportunities",
                             "returned"}
      /\ requests[r].pc = "returned" =>
           /\ DOMAIN Val(requests[r].result) = {"valid", "error"}
           /\ ~Val(requests[r].result).valid
           /\ Contains(Lower(Val(requests[r].result).error), "knowledge base")
           /\ Contains(Lower(Val(requests[r].result).error), "unavailable")

\* C14 witness: a complete profile submitted while the knowledge base holds
\* nothing is answered with the error after the catalog was read
C14_Witness ==
  /\ requests # << >>
  /\ knowledge_base = << >>
  /\ requests[1].profile = StudentOne
  /\ requests[1].pc = "returned"
  /\ requests[1].calls = <<"_validate_field_values", "validate", "get_all_opportunities">>
  /\ Val(requests[1].result) = [valid |-> FALSE, error |-> KnowledgeBaseUnavailable]

\* C15: no exception escapes handle_form_submission: whichever step of the
\* submission fails unexpectedly, the call returns a result record with
\* valid = False and the generic error message instead of raising to the
\* caller.
C15_NoExceptionEscapes ==
  \A r \in DOMAIN requests :
    /\ requests[r].pc # "raised"
    /\ (/\ requests[r].pc = "returned"
        /\ ~IsNone(patched)
        /\ Val(patched).effect = "raises"
        /\ Val(patched).method \in Range(requests[r].calls)) =>
         Val(requests[r].result) = [valid |-> FALSE, error |-> UnexpectedError]

\* submission r has called the matcher and the matcher has yielded no match
MatcherYieldsNothing(r) ==
  /\ "match_opportunities" \in Range(requests[r].calls)
  /\ IF ~IsNone(patched) /\ Val(patched).method = "match_opportunities"
     THEN Val(patched).effect = "returns empty"
     ELSE match_opportunities(requests[r].profile, analysis_of(r), blindspots_of(r),
                              knowledge_base) = << >>

\* C16: when the matcher yields no matches for a valid profile,
\* handle_form_submission returns a valid (not error) result with
\* matches = [], no_matches = true, the profile summary, the blindspots and
\* the dedicated canned insight, and generate_final_insight is not invoked.
C16_NoMatchesIsValid ==
  \A r \in DOMAIN requests :
    MatcherYieldsNothing(r) =>
      /\ requests[r].pc = "returned"
      /\ "generate_final_insight" \notin Range(requests[r].calls)
      /\ DOMAIN Val(requests[r].result) =
           {"valid", "profile_summary", "blindspots", "matches", "final_insight", "no_matches"}
      /\ Val(requests[r].result).valid
      /\ Val(requests[r].result).matches = << >>
      /\ Val(requests[r].result).no_matches
      /\ Val(requests[r].result).profile_summary = Val(requests[r].profile_summary)
      /\ ~IsBlank(Val(requests[r].result).profile_summary)
      /\ Val(requests[r].result).blindspots = blindspots_of(r)
      /\ Len(Val(requests[r].result).blindspots) > 0
      /\ Val(requests[r].result).final_insight =
           "Hi " \o Val(requests[r].profile.name)
             \o ", based on your current profile, we don't have specific opportunities "
             \o "in our knowledge base that match your eligibility criteria right now. "
             \o "This doesn't mean opportunities don't exist--it means our current database is limited. "
             \o "We recommend checking back later as we continuously update our opportunity database. "
             \o "In the meantime, explore the blindspot categories we identified--they can guide your own research!"

\* C16 witness: the matcher, replaced by one that returns [], has been
\* called and the submission is answered with no_matches
C16_Witness ==
  /\ patched = Some([method |-> "match_opportunities", effect |-> "returns empty"])
  /\ requests[1].pc = "returned"
  /\ requests[1].calls[Len(requests[1].calls)] = "match_opportunities"
  /\ Val(requests[1].result).no_matches
  /\ Len(Val(requests[1].result).blindspots) >= MinBlindspots

\* C17: every result of handle_form_submission with valid = True has a
\* non-blank profile_summary, a non-empty blindspots list and a non-blank
\* final_insight, even when the summary generator, the blindspot identifier
\* or the insight generator returns an empty value.
C17_ValidResultsAreFilled ==
  \A r \in DOMAIN requests :
    (requests[r].pc = "returned" /\ Val(requests[r].result).valid) =>
      /\ {"profile_summary", "blindspots", "final_insight"} \subseteq DOMAIN Val(requests[r].result)
      /\ ~IsBlank(Val(requests[r].result).profile_summary)
      /\ Contains(Val(requests[r].result).profile_summary, Val(requests[r].profile.name))
      /\ Len(Val(requests[r].result).blindspots) > 0
      /\ ~IsBlank(Val(requests[r].result).final_insight)

\* C17 witness: the insight generator, replaced by one that returns
\* whitespace, has been called, and the answer is valid and carries the
\* controller's fallback insight
C17_Witness ==
  /\ patched = Some([method |-> "generate_final_insight", effect |-> "returns blank"])
  /\ requests[1].pc = "returned"
  /\ "generate_final_insight" \in Range(requests[1].calls)
  /\ Val(requests[1].result).valid
  /\ Val(requests[1].result).final_insight =
       _generate_fallback_final_insight(requests[1].profile, Val(requests[1].matches))

C19_SubmissionsDoNotInteract ==
  patched = None =>
    \A r \in DOMAIN requests :
      /\ requests[r].pc # "raised"
      /\ requests[r].pc = "returned" =>
           Val(requests[r].result) = handle_form_submission(requests[r].profile, knowledge_base)

\* C19 witness: Student One has been answered while the submission of
\* Student Two, analysed before that answer, is still in progress on the
\* same controller; the answer is the one Student One gets alone
C19_Witness ==
  /\ patched = None
  /\ requests # << >>
  /\ requests[1].profile = StudentOne /\ requests[2].profile = StudentTwo
  /\ requests[1].pc = "returned"
  /\ requests[2].pc = "identify_blindspots"
  /\ Val(requests[1].result).valid
  /\ Len(Val(requests[1].result).matches) >= MinMatches
  /\ Val(requests[1].result) = handle_form_submission(StudentOne, knowledge_base)

\* how widely an opportunity is known, the least known first
VisibilityRank(visibility_level) ==
  CASE visibility_level = "Low" -> 1
    [] visibility_level = "Medium" -> 2
    [] visibility_level = "High" -> 3

\* C21: for any valid profile and any two catalog entries that are both
\* eligible for it and have the same impact level, the relevance score of the
\* one with the higher visibility exceeds the score of the one with the lower
\* visibility by at most 0.15.
C21_VisibilityTolerance ==
  pc = "matched" =>
    \A high \in EligibleEntries : \A low \in EligibleEntries :
      (/\ knowledge_base[high].impact_level = knowledge_base[low].impact_level
       /\ VisibilityRank(knowledge_base[high].visibility_level)
            > VisibilityRank(knowledge_base[low].visibility_level))
        => FLeq(ScoreOfEntry(high), FAdd(ScoreOfEntry(low), F_0_15))

\* C22: is_eligible(profile, criteria) is true exactly when every set
\* constraint passes: the education level is among the criteria's levels, and
\* each of field of study, institution type and background (any one of the
\* listed indicators) is either unset or matched by the profile. An unset
\* constraint never excludes; one failing set constraint always does.
C22_EligibleIffEveryConstraintPasses ==
  pc = "eligibility_checked" =>
    LET criteria == Val(probe).criteria
        level_passes == Val(student.education_level) \in Range(criteria.education_levels)
        field_passes ==
          \/ criteria.fields_of_study = None
          \/ Val(student.field_of_study) \in Range(Val(criteria.fields_of_study))
        institution_passes ==
          \/ criteria.institution_types = None
          \/ Val(student.institution_type) \in Range(Val(criteria.institution_types))
        background_passes ==
          \/ criteria.background_requirements = None
          \/ Range(Val(criteria.background_requirements)) \cap Range(student.background_indicators) # {}
    IN Val(probe).eligible =
         (level_passes /\ field_passes /\ institution_passes /\ background_passes)

\* C22 witness: criteria with the field of study unset and two backgrounds
\* listed, of which the student has one and not the other: eligible
C22_Witness ==
  /\ pc = "eligibility_checked"
  /\ Val(probe).criteria.fields_of_study = None
  /\ Val(probe).criteria.institution_types # None
  /\ Val(probe).criteria.background_requirements = Some(<<"Rural", "Disabled">>)
  /\ student.background_indicators = <<"Disabled">>
  /\ Val(student.field_of_study) = "History"
  /\ Val(probe).eligible

\* the goal a category of opportunity serves, for the categories that serve one
GoalOfCategory(category) ==
  CASE category = "Scholarship" -> <<"Scholarships">>
    [] category = "Internship" -> <<"Internships">>
    [] category = "Program" -> <<"Skills">>
    [] OTHER -> << >>

\* 0.4 x alignment + impact term + visibility term (+ 0.1 with the goal bonus), summed left to right
WeightedSum(alignment, impact_level, visibility_level, goal_bonus) ==
  LET impact == CASE impact_level = "High" -> F_0_3
                  [] impact_level = "Medium" -> F_0_2
                  [] impact_level = "Low" -> F_0_1
      visibility == CASE visibility_level = "Low" -> F_0_2
                      [] visibility_level = "Medium" -> F_0_15
                      [] visibility_level = "High" -> F_0_1
      base == FAdd(FAdd(FMul(F_0_4, alignment), impact), visibility)
  IN IF goal_bonus THEN FAdd(base, F_0_1) ELSE base

\* C23: the relevance score of a match equals 0.4 x blindspot_alignment
\* + (0.3/0.2/0.1 for impact High/Medium/Low) + (0.2/0.15/0.1 for visibility
\* Low/Medium/High) + 0.1 if the opportunity's category maps to one of the
\* profile's goals (Scholarship->Scholarships, Internship->Internships,
\* Program->Skills), capped at 1.0, and so lies in [0,1].
C23_RelevanceFormula ==
  pc = "matched" =>
    \A i \in DOMAIN Val(matches_out) :
      LET match == Val(matches_out)[i]
          opportunity == match.opportunity
          alignment == _calculate_blindspot_alignment(opportunity, Val(blindspots_out).value)
          goal_bonus == Range(GoalOfCategory(opportunity.category)) \cap Range(student.opportunity_goals) # {}
          sum == WeightedSum(alignment, opportunity.impact_level, opportunity.visibility_level, goal_bonus)
      IN /\ match.relevance_score = (IF FLess(F_1_0, sum) THEN F_1_0 ELSE sum)
         /\ FLeq(F_0_0, match.relevance_score)
         /\ FLeq(match.relevance_score, F_1_0)

\* C23 witness: among the matches of one student, one whose category serves a
\* goal of the student and one whose category does not
C23_Witness ==
  /\ pc = "matched"
  /\ \E i \in DOMAIN Val(matches_out) :
       /\ Val(matches_out)[i].opportunity.category = "Internship"
       /\ In("Internships", student.opportunity_goals)
  /\ \E i \in DOMAIN Val(matches_out) :
       /\ Val(matches_out)[i].opportunity.category = "Scholarship"
       /\ ~In("Scholarships", student.opportunity_goals)

\* the relevance scores of a list of blindspots
ScoresOf(blindspots) == {blindspots[i].relevance_score : i \in DOMAIN blindspots}

\* C24: the blindspot alignment of an opportunity is the greatest alignment
\* any blindspot offers through any heuristic (the blindspot's score, or 0.9,
\* 0.8 or 0.7 of it), floored at 0.3: it is never below 0.3, for any
\* opportunity and any blindspot list, the empty list included, and never above
\* the largest blindspot relevance score or 0.3, whichever is greater.
C24_AlignmentFloorAndCeiling ==
  pc = "aligned" =>
    LET alignment == Val(probe).alignment
        scores == ScoresOf(Val(probe).blindspots)
        ceiling == Greatest(scores \cup {F_0_3})
    IN /\ FLeq(F_0_3, alignment)
       /\ FLeq(alignment, ceiling)
       /\ \/ alignment = F_0_3
          \/ alignment \in scores
          \/ \E score \in scores : \E factor \in {F_0_9, F_0_8, F_0_7} :
               alignment = FMul(score, factor)
       /\ scores = {} => alignment = F_0_3

\* C24 witness: an entry of the catalog aligned with no blindspot at all is
\* given the floor
C24_Witness ==
  /\ pc = "aligned"
  /\ Val(probe).blindspots = << >>
  /\ Val(probe).opportunity.category = "Program"
  /\ Val(probe).alignment = F_0_3

\* the age or the year of study of p is given and is not positive
NotPositive(p) ==
  \/ ~IsNone(p.age) /\ Val(p.age) <= 0
  \/ ~IsNone(p.year_of_study) /\ Val(p.year_of_study) <= 0

\* what holds of both readings of C25: the submission is rejected with no
\* outcome of the analysis in the result, and a negative value is reported in
\* invalid_fields
RejectedUnscored ==
  /\ ~Val(result).valid
  /\ DOMAIN Val(result) \cap ScoringKeys = {}
  /\ (~IsNone(student.age) /\ Val(student.age) < 0) =>
       /\ "invalid_fields" \in DOMAIN Val(result)
       /\ In("age (must be positive)", Val(result).invalid_fields)
  /\ (~IsNone(student.year_of_study) /\ Val(student.year_of_study) < 0) =>
       /\ "invalid_fields" \in DOMAIN Val(result)
       /\ In("year_of_study (must be positive)", Val(result).invalid_fields)

\* C25 as the specification states it: handle_form_submission rejects
\* (valid=False, no analysis run) every profile whose age or year_of_study is
\* not positive: negative values are reported in invalid_fields, while the
\* value 0 passes the field-value check and is reported as a missing field
\* ('age' / 'year_of_study') in missing_fields.
C25_ZeroAlwaysMissing ==
  (pc = "submitted" /\ NotPositive(student)) =>
    /\ RejectedUnscored
    /\ student.age = Some(0) =>
         /\ "missing_fields" \in DOMAIN Val(result)
         /\ In("age", Val(result).missing_fields)
    /\ student.year_of_study = Some(0) =>
         /\ "missing_fields" \in DOMAIN Val(result)
         /\ In("year_of_study", Val(result).missing_fields)

\* C25, amended: handle_form_submission rejects every profile whose age or
\* year_of_study is not positive, with no outcome of the analysis; negative
\* values are reported in invalid_fields; the value 0 is never reported in
\* invalid_fields, and is reported as a missing field in missing_fields
\* exactly when neither age nor year_of_study is out of range -- when the
\* other value is negative or above its maximum the result carries
\* invalid_fields alone and the zero is not reported.
C25_ZeroMissingUnlessInvalid ==
  (pc = "submitted" /\ NotPositive(student)) =>
    /\ RejectedUnscored
    /\ student.age = Some(0) =>
         /\ "invalid_fields" \in DOMAIN Val(result) =>
              Range(Val(result).invalid_fields) \cap AgeViolations = {}
         /\ OutOfRange(student) <=> "missing_fields" \notin DOMAIN Val(result)
         /\ ~OutOfRange(student) => In("age", Val(result).missing_fields)
    /\ student.year_of_study = Some(0) =>
         /\ "invalid_fields" \in DOMAIN Val(result) =>
              Range(Val(result).invalid_fields) \cap YearViolations = {}
         /\ OutOfRange(student) <=> "missing_fields" \notin DOMAIN Val(result)
         /\ ~OutOfRange(student) => In("year_of_study", Val(result).missing_fields)

\* C25 witness: an age of zero with a year of study of -1 is answered with the
\* year violation alone
C25_Witness ==
  /\ pc = "submitted"
  /\ student.age = Some(0)
  /\ student.year_of_study = Some(-1)
  /\ Val(result) = [valid |-> FALSE, invalid_fields |-> <<"year_of_study (must be positive)">>]

\* the categories of the blindspots of rules 10, 11 and 12, in that order
LastFallbackCategories ==
  << "Skill Development and Certification Programs",
     "Academic Enhancement Programs",
     "Career Guidance and Mentorship Programs" >>

\* the categories of the blindspots of rules 9 to 12
FallbackCategories == {"Merit and Need-based Scholarships"} \cup Range(LastFallbackCategories)

\* C26: the "Implementation error" ValueError of identify_blindspots is
\* unreachable: when the length check is reached at least 3 blindspots have
\* been accumulated, because rules 10, 11 and 12 each append one blindspot
\* while fewer than 3 exist -- a list of j < 3 blindspots after rule 9 is
\* followed by the blindspots of the first 3 - j of these rules, making 3.
C26_ImplementationErrorUnreachable ==
  pc = "identified" =>
    LET acc == accumulated_blindspots(student, Val(analysis_out))
        to_rule_9 == SelectSeq(acc, LAMBDA b : b.category \notin Range(LastFallbackCategories))
        appended == SelectSeq(acc, LAMBDA b : b.category \in Range(LastFallbackCategories))
        j == Len(to_rule_9)
    IN /\ ~Val(blindspots_out).raised
       /\ Len(acc) >= 3
       /\ acc = to_rule_9 \o appended
       /\ Categories(appended) = SubSeq(LastFallbackCategories, 1, IF j < 3 THEN 3 - j ELSE 0)

\* C26 witness: one blindspot has been accumulated when rule 10 is reached;
\* rules 10 and 11 append theirs and rule 12 does not
C26_Witness ==
  /\ pc = "identified"
  /\ ~Val(blindspots_out).raised
  /\ LET categories == Categories(Val(blindspots_out).value)
     IN /\ Len(categories) = 3
        /\ categories[1] \notin Range(LastFallbackCategories)
        /\ categories[2] = LastFallbackCategories[1]
        /\ categories[3] = LastFallbackCategories[2]

\* C27: if fewer than 3 of the 8 primary rules fire, identify_blindspots
\* returns exactly 3 blindspots; if k >= 3 primary rules fire it returns the
\* min(k,5) highest-scoring primary blindspots, and no category of the
\* fallback rules 9 to 12 appears in the result.
C27_FallbacksOnlyBelowThree ==
  pc = "identified" =>
    LET primary == PrimaryBlindspots(student, Val(analysis_out))
        k == Len(primary)
        returned == Val(blindspots_out).value
    IN /\ k < 3 => Len(returned) = 3
       /\ k >= 3 =>
            /\ Len(returned) = (IF k < 5 THEN k ELSE 5)
            /\ Range(returned) \subseteq Range(primary)
            /\ \A b \in Range(primary) \ Range(returned) :
                 \A i \in DOMAIN returned : FLeq(b.relevance_score, returned[i].relevance_score)
            /\ Range(Categories(returned)) \cap FallbackCategories = {}

\* C27 witness: exactly three primary rules fire for a student who wants
\* scholarships, and the three primary blindspots are returned alone
C27_Witness ==
  /\ pc = "identified"
  /\ In("Scholarships", student.opportunity_goals)
  /\ Len(PrimaryBlindspots(student, Val(analysis_out))) = 3
  /\ Len(Val(blindspots_out).value) = 3
  /\ Range(Categories(Val(blindspots_out).value)) \cap FallbackCategories = {}

\* C28: handle_form_submission, and match_opportunities within it, leave
\* their inputs unchanged: no statement of any submission changes the catalog
\* (the same entries, in the same order, with the same field values) or a
\* field of a submitted profile, its goals and background lists included.
C28_InputsUnchanged ==
  [][/\ knowledge_base' = knowledge_base
     /\ \A r \in Submissions : requests'[r].profile = requests[r].profile]_vars

\* C28 witness: two submissions have been answered with matches; the catalog
\* is the shipped one and the profiles are the ones submitted
C28_Witness ==
  /\ pc = "submissions"
  /\ \A r \in Submissions :
       /\ requests[r].pc = "returned"
       /\ Val(requests[r].result).valid
       /\ Len(Val(requests[r].result).matches) >= MinMatches
  /\ knowledge_base = OPPORTUNITIES
  /\ requests[1].profile = StudentOne
  /\ requests[2].profile = StudentTwo

\* C30: _normalize_field_of_study maps Computer Science to "Engineering": a
\* field of study containing "computer" (such as "Computer Science") is
\* normalized to "Engineering", and a field matching none of the engineering,
\* science, commerce or computer term lists is returned unchanged.
C30_ComputerIsEngineering ==
  pc = "normalized" =>
    LET field == Val(probe).field
        field_lower == Lower(field)
        terms == Range(EngineeringTerms) \cup Range(ScienceTerms)
                   \cup Range(CommerceTerms) \cup Range(ComputerTerms)
    IN /\ Contains(field_lower, "computer") => Val(probe).normalized = "Engineering"
       /\ field = "Computer Science" => Val(probe).normalized = "Engineering"
       /\ (\A term \in terms : ~Contains(field_lower, term)) => Val(probe).normalized = field

\* the student with the fields eligibility is claimed not to look at replaced
Otherwise(p, gender, goals, age, year_of_study, additional_context) ==
  [p EXCEPT !.gender = gender, !.opportunity_goals = goals, !.age = age,
            !.year_of_study = year_of_study, !.additional_context = additional_context]

\* students who agree with p on education level, field of study, institution
\* type and background indicators
Alike(p) ==
  {Otherwise(p, gender, goals, age, year_of_study, additional_context) :
     gender \in {None, Some("Female"), Some("Male")},
     goals \in {p.opportunity_goals, <<"Research">>, <<"Govt Exams", "Skills">>},
     age \in {p.age, Some(35)},
     year_of_study \in {p.year_of_study, Some(4)},
     additional_context \in {None, Some("I want to build a startup")}}

\* the criteria of the catalog entry "AICTE Pragati"
PragatiCriteria ==
  (CHOOSE o \in Range(OPPORTUNITIES) : o.name = "AICTE Pragati").eligibility_criteria

\* C29: eligibility does not depend on gender, goals, age, year or free-text
\* context: two profiles that agree on education level, field of study,
\* institution type and background indicators are eligible for the same
\* criteria, those of every catalog entry included; in particular "AICTE
\* Pragati" is eligible for every UG profile whose field is exactly
\* "Engineering", whatever the gender.
C29_EligibilityIgnoresGender ==
  pc = "eligibility_checked" =>
    LET criteria == Val(probe).criteria
    IN /\ \A q \in Alike(student) : is_eligible(q, criteria) = Val(probe).eligible
       /\ (/\ criteria = PragatiCriteria
           /\ student.education_level = Some("UG")
           /\ student.field_of_study = Some("Engineering")) => Val(probe).eligible

\* C29 witness: a UG engineering student of no stated gender is found
\* eligible for the criteria of AICTE Pragati
C29_Witness ==
  /\ pc = "eligibility_checked"
  /\ Val(probe).criteria = PragatiCriteria
  /\ student.education_level = Some("UG")
  /\ student.field_of_study = Some("Engineering")
  /\ student.gender = None
  /\ Val(probe).eligible

====
